---- MODULE Spec2Model ----
(***************************************************************************)
(* SRE Dreamer: the dream-and-score remediation engine.                    *)
(*                                                                         *)
(* Sub-scores are exact rationals with the fixed denominator               *)
(* LatencyDenominator (sub-score 1.0 is One); aggregates are rationals     *)
(* with the denominator 100 * One (aggregate 1.0 is AggOne), because the   *)
(* weights are hundredths.                                                 *)
(***************************************************************************)
EXTENDS Integers, Sequences, FiniteSets, TLC

VARIABLES
    pc,             \* position of runAgentWithProfile / of the pure-function drivers
    incident,       \* the incident built from perception ([type |-> ...]) or Null
    diagnosis,      \* the Diagnosis returned by diagnoseRootCause
    pastIncidents,  \* IncidentMemory[] handed to runDreamCycle
    strategies,     \* StrategyDef[] returned by selectStrategies
    dreams,         \* per strategy index: the state of its executeDream call
    report,         \* the DreamReport (dreams ranked, bestStrategy) or NoReport
    apiLog,         \* calls made to the deployment API and the action targets, in order
    config,         \* AgentConfig: whether rollback credentials are configured
    profile,        \* SiteProfile: the configured remediation action
    actionResult,   \* ActionResult of executeRemediationAction or NoAction
    runResult,      \* RunResult returned by runAgentWithProfile or NoRunResult
    durationMs,     \* elapsed wall-clock time handed to scoreLatency
    breakdown,      \* the ScoreBreakdown under evaluation
    resolvedAction, \* the RemediationAction resolveActionForStrategy returned
    perception,     \* the PerceptionResult of runPerception
    redis,          \* the Redis keys of the memory store: hashes, embeddings, index
    calls,          \* the storeMemory calls in flight, each with its position
    query,          \* the arguments of the retrieval call under way
    found,          \* the IncidentMemory[] a retrieval call returned
    cosine,         \* the arguments and the result of cosineSimilarity
    service,        \* the external request an action handler is waiting for
    env,            \* process.env of the process under study
    memoryConnected,\* runAgentWithProfile's memoryConnected flag
    memoryUpdated,  \* runAgentWithProfile's memoryUpdated flag
    memoryOps,      \* the operations issued on the memory store, in order
    phaseLog,       \* the phases of the run that have taken place, in order
    llmCalls,       \* the calls made to the reasoning layer, with their outcome
    bugEnabled,     \* the target app's in-memory bug toggle
    responses,      \* the HTTP exchanges of the target app so far, in order
    dom,            \* the signals checkSafety's page.evaluate finds in the DOM
    safety,         \* the issues checkSafety recorded and the score it returned
    checks,         \* how the page answers each check of evaluatePageHealth
    llm             \* the answer of the chat-completion request under way

runVars == << incident, diagnosis, pastIncidents, strategies, dreams, report,
              apiLog, config, profile, actionResult, runResult, durationMs, breakdown,
              resolvedAction >>

storeVars == << perception, redis, calls, query, found, cosine >>

auxVars == << service, env, memoryConnected, memoryUpdated, memoryOps, phaseLog, llmCalls,
              bugEnabled, responses, dom, safety, checks, llm >>

vars == << pc, runVars, storeVars, auxVars >>

Null == "null"

\* resolveActionForStrategy has not been called.
NoResolved == [type |-> Null]

\* No PerceptionResult yet.
NoPerception == [healthy |-> TRUE, flowResults |-> << >>]

\* A Redis instance without keys: no memory hash, no embedding, an empty index.
EmptyRedis == [hash |-> { }, embedding |-> { }, index |-> { }]

\* No retrieval call under way.
NoQuery == [type |-> Null, embedding |-> << >>, limit |-> 0]

\* cosineSimilarity has not been called.
NoCosine == [a |-> << >>, b |-> << >>, similarity |-> 0, reversed |-> 0]

\* The memory store, perception and similarity variables at rest
\* No external request is under way.
NoService == [state |-> "idle", call |-> Null, timeoutMs |-> 0]

\* No document has been examined, no safety score computed.
NoDom == [runtimeError |-> FALSE, applicationError |-> FALSE, bodyChildren |-> 2,
           alerts |-> 0, hydrationError |-> FALSE]

NoSafety == [issues |-> << >>, score |-> 0, thrown |-> FALSE]

\* No page under evaluation, no chat completion under way
NoChecks == [flows |-> << >>, elements |-> << >>, assessment |-> Null, safety |-> Null]

NoLlm == [outcome |-> Null, content |-> Null]

\* Everything outside the run and the store is at rest.
AuxIdle ==
    /\ service = NoService
    /\ env = [GITHUB_TOKEN |-> FALSE]
    /\ memoryConnected = FALSE
    /\ memoryUpdated = FALSE
    /\ memoryOps = << >>
    /\ phaseLog = << >>
    /\ llmCalls = << >>
    /\ bugEnabled = FALSE
    /\ responses = << >>
    /\ dom = NoDom
    /\ safety = NoSafety
    /\ checks = NoChecks
    /\ llm = NoLlm

StoreIdle ==
    /\ perception = NoPerception
    /\ redis = EmptyRedis
    /\ calls = << >>
    /\ query = NoQuery
    /\ found = << >>
    /\ cosine = NoCosine

(***************************************************************************)
(* Scoring (scoring/evaluator.ts)                                          *)
(***************************************************************************)

\* (120 - 5) seconds, in milliseconds: the length of the linear decay.
LatencyDenominator == (120 - 5) * 1000

\* The sub-score 1.0.
One == LatencyDenominator

\* The aggregate 1.0.
AggOne == 100 * One

\* WEIGHTS, in hundredths.
WEIGHTS == [reachability |-> 40, visualIntegrity |-> 25, latency |-> 15, safety |-> 20]

computeScore_swapped(b) ==
    b.reachability * WEIGHTS.reachability +
    b.visualIntegrity * WEIGHTS.visualIntegrity +
    b.latency * WEIGHTS.safety +
    b.safety * WEIGHTS.latency

computeScore(b) ==
    b.reachability * WEIGHTS.reachability +
    b.visualIntegrity * WEIGHTS.visualIntegrity +
    b.latency * WEIGHTS.latency +
    b.safety * WEIGHTS.safety

scoreLatency_noOffset(d) ==
    IF d <= 5 * 1000 THEN One
    ELSE IF d >= 120 * 1000 THEN 0
    ELSE One - d * (One \div ((120 - 5) * 1000))

\* seconds = durationMs / 1000; the comparisons and the interpolation are
\* carried out in milliseconds, one unit of sub-score per millisecond.
scoreLatency(d) ==
    IF d <= 5 * 1000 THEN One
    ELSE IF d >= 120 * 1000 THEN 0
    ELSE One - (d - 5 * 1000) * (One \div ((120 - 5) * 1000))

\* The breakdown evaluatePageHealth returns for the three sub-scores it
\* measured: latency is the placeholder 1.0 and the aggregate is computed
\* with it.
evaluatePageHealth(r, v, s) ==
    LET b0 == [reachability |-> r, visualIntegrity |-> v, latency |-> One,
               safety |-> s, aggregate |-> 0]
    IN  [b0 EXCEPT !.aggregate = computeScore(b0)]

(***************************************************************************)
(* Perception (perception/detector.ts): runPerception and the incident     *)
(* builder.                                                                *)
(***************************************************************************)

\* buildIncidentFromPerception returned null.
NoIncident == [type |-> Null, severity |-> Null]

\* The FlowTestResults testCriticalFlow can return: the flow verified; it
\* failed with a blocking element or an interception error; it failed without.
FlowOutcomes ==
    { [passed |-> TRUE, occlusionDetected |-> FALSE],
      [passed |-> FALSE, occlusionDetected |-> TRUE],
      [passed |-> FALSE, occlusionDetected |-> FALSE] }

\* const healthy = stagehandResult.flowResults.every((r) => r.passed)
AllFlowsPassed(flowResults) == \A i \in 1..Len(flowResults) : flowResults[i].passed

\* result.flowResults.filter((r) => !r.passed)
FailedFlows(result) == SelectSeq(result.flowResults, LAMBDA r : ~r.passed)

buildIncidentFromPerception_moreThanHalf(result, prof) ==
    IF result.healthy THEN NoIncident
    ELSE LET failedFlows == FailedFlows(result)
             hasOcclusion == \E i \in 1..Len(failedFlows) : failedFlows[i].occlusionDetected
         IN  IF hasOcclusion
             THEN [type |-> "visual_occlusion", severity |-> "critical"]
             ELSE IF Len(failedFlows) > 0
                  THEN [type |-> "element_unclickable",
                        severity |-> IF 2 * Len(failedFlows) > prof.criticalFlows
                                     THEN "critical" ELSE "high"]
                  ELSE [type |-> "unknown", severity |-> "medium"]

\* buildIncidentFromPerception(result, profile): the type and the severity of
\* the incident; failedFlows.length >= profile.criticalFlows.length / 2 is
\* compared after doubling.
buildIncidentFromPerception(result, prof) ==
    IF result.healthy THEN NoIncident
    ELSE LET failedFlows == FailedFlows(result)
             hasOcclusion == \E i \in 1..Len(failedFlows) : failedFlows[i].occlusionDetected
         IN  IF hasOcclusion
             THEN [type |-> "visual_occlusion", severity |-> "critical"]
             ELSE IF Len(failedFlows) > 0
                  THEN [type |-> "element_unclickable",
                        severity |-> IF 2 * Len(failedFlows) >= prof.criticalFlows
                                     THEN "critical" ELSE "high"]
                  ELSE [type |-> "unknown", severity |-> "medium"]

(***************************************************************************)
(* cosineSimilarity (memory/redis-store.ts).  Similarities are fixed-point *)
(* numbers in units of 1/SimOne.  Math.sqrt, the product of the two roots  *)
(* and the final quotient each round to the nearest representable value,   *)
(* as the floating-point operations of the code do at a finer precision.   *)
(***************************************************************************)

\* The fixed-point representation of 1.0
SimOne == 100

\* Math.sqrt(n) rounded to the nearest unit, for an integer n >= 0
FSqrt(n) ==
    CHOOSE r \in 0..(n * SimOne) :
        /\ r = 0 \/ (2 * r - 1) * (2 * r - 1) < 4 * n * SimOne * SimOne
        /\ 4 * n * SimOne * SimOne <= (2 * r + 1) * (2 * r + 1)

\* x * y of two fixed-point numbers, rounded to the nearest unit
FMul(x, y) == (2 * x * y + SimOne) \div (2 * SimOne)

\* x / y of two fixed-point numbers (y > 0), rounded to the nearest unit
FDiv(x, y) == (2 * x * SimOne + y) \div (2 * y)

\* The sum of a[i] * b[i] over the first n components
RECURSIVE DotProduct(_, _, _)
DotProduct(a, b, n) ==
    IF n = 0 THEN 0 ELSE DotProduct(a, b, n - 1) + a[n] * b[n]

cosineSimilarity_noLengthCheck(a, b) ==
    LET n == IF Len(a) < Len(b) THEN Len(a) ELSE Len(b)
        dotProduct == DotProduct(a, b, n)
        normA == DotProduct(a, a, n)
        normB == DotProduct(b, b, n)
        denominator == FMul(FSqrt(normA), FSqrt(normB))
    IN  IF denominator = 0 THEN 0
        ELSE FDiv(dotProduct * SimOne, denominator)

\* cosineSimilarity(a, b)
cosineSimilarity(a, b) ==
    IF Len(a) # Len(b) THEN 0
    ELSE LET dotProduct == DotProduct(a, b, Len(a))
             normA == DotProduct(a, a, Len(a))
             normB == DotProduct(b, b, Len(a))
             denominator == FMul(FSqrt(normA), FSqrt(normB))
         IN  IF denominator = 0 THEN 0
             ELSE FDiv(dotProduct * SimOne, denominator)

(***************************************************************************)
(* The memory layer (memory/redis-store.ts): the Redis commands it uses    *)
(* and the long-term knowledge operations of IncidentMemoryStore.          *)
(* Incident ids inc_<n> are represented by n, ISO timestamps by the        *)
(* millisecond count they denote.                                          *)
(***************************************************************************)

\* JSON.stringify of an IncidentMemory or of an embedding, and JSON.parse of
\* the stored text
JSONstringify(v) == << "json", v >>

JSONparse(text) == text[2]

\* new Date().toISOString() of a millisecond count, and Date.parse of it
ToISOString(ms) == << "iso", ms >>

DateParse(iso) == iso[2]

\* HSET key field value ...: creates the hash or replaces its fields
HSet(hash, id, fields) ==
    { e \in hash : e.id # id } \cup { [id |-> id, fields |-> fields] }

HExists(hash, id) == \E e \in hash : e.id = id

\* HGETALL key (the fields of an existing hash)
HGetAll(hash, id) == (CHOOSE e \in hash : e.id = id).fields

\* SET key value
SetKey(keys, id, value) ==
    { e \in keys : e.id # id } \cup { [id |-> id, value |-> value] }

KeyExists(keys, id) == \E e \in keys : e.id = id

\* GET key
GetKey(keys, id) == (CHOOSE e \in keys : e.id = id).value

\* ZADD key score member: adds the member or updates its score
ZAdd(index, score, member) ==
    { e \in index : e.member # member } \cup { [member |-> member, score |-> score] }

\* The members of a sorted set from the highest score down, equal scores in
\* descending order of the member
RECURSIVE ZRevAll(_)
ZRevAll(index) ==
    IF index = { } THEN << >>
    ELSE LET top == CHOOSE e \in index :
                        \A f \in index :
                            \/ f.score < e.score
                            \/ f.score = e.score /\ f.member <= e.member
         IN  << top.member >> \o ZRevAll(index \ { top })

\* ZREVRANGE key start stop, both ends inclusive, a negative stop counted
\* from the end
ZRevRange(index, start, stop) ==
    LET all == ZRevAll(index)
        n == Len(all)
        last == IF stop < 0 THEN n + stop + 1
                ELSE IF stop + 1 < n THEN stop + 1 ELSE n
    IN  SubSeq(all, start + 1, last)

\* The fields storeMemory writes to sre:memory:<incidentId>
MemoryFields(memory) ==
    [data |-> JSONstringify(memory),
     type |-> memory.type,
     score |-> memory.score,
     timestamp |-> memory.timestamp]

\* this.redis.zadd(MEMORY_INDEX, Date.parse(memory.timestamp), memory.incidentId)
StoreIndexInsert(index, memory) ==
    ZAdd(index, DateParse(memory.timestamp), memory.incidentId)

\* for (const id of ids) { raw = hget(id, "data"); if (raw) memories.push(JSON.parse(raw)) }
RECURSIVE ReadMemories(_, _)
ReadMemories(hash, ids) ==
    IF ids = << >> THEN << >>
    ELSE (IF HExists(hash, Head(ids))
          THEN << JSONparse(HGetAll(hash, Head(ids)).data) >>
          ELSE << >>) \o ReadMemories(hash, Tail(ids))

getRecentMemories_oldestFirst(r, limit) ==
    LET ids == ZRevRange(r.index, 0, limit - 1)
        ms == ReadMemories(r.hash, ids)
    IN  [i \in 1..Len(ms) |-> ms[Len(ms) + 1 - i]]

\* getRecentMemories(limit)
getRecentMemories(r, limit) ==
    LET ids == ZRevRange(r.index, 0, limit - 1)
    IN  IF Len(ids) = 0 THEN << >> ELSE ReadMemories(r.hash, ids)

\* zrevrange(MEMORY_INDEX, 0, 50): the stop index of the recency window
RecencyStop == 50

\* scored.sort((a, b) => b.similarity - a.similarity), a stable sort
RECURSIVE InsertBySimilarity(_, _)
InsertBySimilarity(sorted, x) ==
    IF sorted = << >> THEN << x >>
    ELSE IF x.similarity - Head(sorted).similarity > 0
         THEN << x >> \o sorted
         ELSE << Head(sorted) >> \o InsertBySimilarity(Tail(sorted), x)

RECURSIVE SortBySimilarityFrom(_, _)
SortBySimilarityFrom(sorted, rest) ==
    IF rest = << >> THEN sorted
    ELSE SortBySimilarityFrom(InsertBySimilarity(sorted, Head(rest)), Tail(rest))

SortBySimilarity(scored) == SortBySimilarityFrom(<< >>, scored)

CandidateSimilarity_typeBlind(r, id, type, queryEmbedding) ==
    IF KeyExists(r.embedding, id)
    THEN cosineSimilarity(queryEmbedding, JSONparse(GetKey(r.embedding, id)))
    ELSE SimOne \div 2

\* The similarity of one candidate: the cosine to its stored embedding, or
\* 0.5 / 0.1 by type when it has none
CandidateSimilarity(r, id, type, queryEmbedding) ==
    IF KeyExists(r.embedding, id)
    THEN cosineSimilarity(queryEmbedding, JSONparse(GetKey(r.embedding, id)))
    ELSE IF JSONparse(HGetAll(r.hash, id).data).type = type
         THEN SimOne \div 2
         ELSE SimOne \div 10

\* for (const id of allIds) { ... scored.push({ memory, similarity }) }
RECURSIVE ScoreCandidates(_, _, _, _)
ScoreCandidates(r, ids, type, queryEmbedding) ==
    IF ids = << >> THEN << >>
    ELSE (IF ~HExists(r.hash, Head(ids)) THEN << >>
          ELSE << [memory |-> JSONparse(HGetAll(r.hash, Head(ids)).data),
                   similarity |-> CandidateSimilarity(r, Head(ids), type, queryEmbedding)] >>)
         \o ScoreCandidates(r, Tail(ids), type, queryEmbedding)

\* Array.prototype.slice(0, end)
SliceTo(seq, end) ==
    LET n == Len(seq)
        last == IF end < 0 THEN (IF n + end < 0 THEN 0 ELSE n + end)
                ELSE IF end < n THEN end ELSE n
    IN  SubSeq(seq, 1, last)

\* The fallback loop: push every candidate of the requested type, and stop
\* once matches.length >= limit
RECURSIVE TypeMatches(_, _, _, _, _)
TypeMatches(hash, ids, type, limit, matches) ==
    IF ids = << >> THEN matches
    ELSE IF HExists(hash, Head(ids)) /\ HGetAll(hash, Head(ids)).type = type
         THEN LET pushed == Append(matches, JSONparse(HGetAll(hash, Head(ids)).data))
              IN  IF Len(pushed) >= limit THEN pushed
                  ELSE TypeMatches(hash, Tail(ids), type, limit, pushed)
         ELSE TypeMatches(hash, Tail(ids), type, limit, matches)

\* findSimilarIncidents(type, queryEmbedding, limit)
findSimilarIncidents(r, type, queryEmbedding, limit) ==
    LET allIds == ZRevRange(r.index, 0, RecencyStop)
    IN  IF Len(queryEmbedding) > 0
        THEN LET scored == SortBySimilarity(ScoreCandidates(r, allIds, type, queryEmbedding))
                 top == SliceTo(scored, limit)
             IN  [i \in 1..Len(top) |-> top[i].memory]
        ELSE TypeMatches(r.hash, allIds, type, limit, << >>)

(***************************************************************************)
(* Strategy selection (dreamer/engine.ts, selectStrategies)                *)
(***************************************************************************)

HasStrategy(ss, n) == \E i \in 1..Len(ss) : ss[i].name = n

\* for (const suggested of diagnosis.suggestedStrategies) { ... }
RECURSIVE AddSuggested_unchecked(_, _)
AddSuggested_unchecked(ss, suggested) ==
    IF suggested = << >> THEN ss
    ELSE LET n == Head(suggested)
         IN  IF n = "rollback_simulation"
             THEN AddSuggested_unchecked(ss, Tail(suggested))
             ELSE AddSuggested_unchecked(Append(ss, [name |-> n, priority |-> 2]),
                                         Tail(suggested))

RECURSIVE AddSuggested(_, _)
AddSuggested(ss, suggested) ==
    IF suggested = << >> THEN ss
    ELSE LET n == Head(suggested)
         IN  IF n = "rollback_simulation" \/ HasStrategy(ss, n)
             THEN AddSuggested(ss, Tail(suggested))
             ELSE AddSuggested(Append(ss, [name |-> n, priority |-> 2]), Tail(suggested))

AddFallback_asSuggested(ss, type, n, prio) ==
    IF type = "visual_occlusion" /\ ~HasStrategy(ss, n)
    THEN Append(ss, [name |-> n, priority |-> 2])
    ELSE ss

AddFallback(ss, type, n, prio) ==
    IF type = "visual_occlusion" /\ ~HasStrategy(ss, n)
    THEN Append(ss, [name |-> n, priority |-> prio])
    ELSE ss

\* pastIncidents.filter((m) => m.score > 0.8)
PastWins(past) == SelectSeq(past, LAMBDA m : 10 * m.score > 8 * AggOne)

\* strategies.find((s) => s.name === n): the index of the first match, 0 if none
FindStrategy(ss, n) ==
    IF HasStrategy(ss, n)
    THEN CHOOSE i \in 1..Len(ss) :
            /\ ss[i].name = n
            /\ \A j \in 1..(i - 1) : ss[j].name # n
    ELSE 0

BoostPastWinner_highest(ss, past) ==
    LET wins == PastWins(past)
    IN  IF Len(wins) > 0
        THEN LET b == CHOOSE i \in 1..Len(wins) :
                          /\ \A j \in 1..Len(wins) : wins[j].score <= wins[i].score
                          /\ \A j \in 1..(i - 1) : wins[j].score < wins[i].score
                 k == FindStrategy(ss, wins[b].strategyUsed)
             IN  IF k # 0 THEN [ss EXCEPT ![k].priority = 0] ELSE ss
        ELSE ss

BoostPastWinner_last(ss, past) ==
    LET wins == PastWins(past)
    IN  IF Len(wins) > 0
        THEN LET k == FindStrategy(ss, wins[Len(wins)].strategyUsed)
             IN  IF k # 0 THEN [ss EXCEPT ![k].priority = 0] ELSE ss
        ELSE ss

BoostPastWinner(ss, past) ==
    LET wins == PastWins(past)
    IN  IF Len(wins) > 0
        THEN LET k == FindStrategy(ss, wins[1].strategyUsed)
             IN  IF k # 0 THEN [ss EXCEPT ![k].priority = 0] ELSE ss
        ELSE ss

\* Array.prototype.sort is stable: an element goes after every element that
\* does not compare greater than it.
RECURSIVE InsertByPriority(_, _)
InsertByPriority(sorted, x) ==
    IF sorted = << >> THEN << x >>
    ELSE IF Head(sorted).priority - x.priority > 0
         THEN << x >> \o sorted
         ELSE << Head(sorted) >> \o InsertByPriority(Tail(sorted), x)

RECURSIVE SortFrom(_, _)
SortFrom(sorted, rest) ==
    IF rest = << >> THEN sorted
    ELSE SortFrom(InsertByPriority(sorted, Head(rest)), Tail(rest))

SortByPriority_none(ss) == ss

\* strategies.sort((a, b) => a.priority - b.priority)
SortByPriority(ss) == SortFrom(<< >>, ss)

\* The candidate list before the learning boost: the rollback baseline, the
\* LLM suggestions, then the deterministic fallbacks.
CandidateStrategies(context, diag) ==
    LET s0 == << [name |-> "rollback_simulation", priority |-> 5] >>
        s1 == AddSuggested(s0, diag.suggestedStrategies)
        s2 == AddFallback(s1, context.incident.type, "css_patch_targeted", 3)
    IN  AddFallback(s2, context.incident.type, "dom_removal", 4)

selectStrategies(context, diag, past) ==
    SortByPriority(BoostPastWinner(CandidateStrategies(context, diag), past))

(***************************************************************************)
(* The dream cycle (dreamer/engine.ts, runDreamCycle and executeDream)     *)
(***************************************************************************)

\* The bestStrategy of a report without a viable strategy (null); also the
\* value slot of a dream that has produced no DreamResult yet.
NoStrategy == [strategy |-> Null, success |-> FALSE, score |-> 0, sideEffects |-> << >>]

\* No DreamReport yet.
NoReport == [dreams |-> << >>, bestStrategy |-> NoStrategy]

\* No ActionResult yet.
NoAction == [success |-> FALSE, actionType |-> Null]

\* runAgentWithProfile has not returned yet.
NoRunResult == [phase |-> Null, verified |-> FALSE]

\* The state of an executeDream call right after `new Stagehand(...)`:
\* stagehand.init() is in flight and no session exists yet.
DreamLaunched ==
    [pc |-> "init", promise |-> "pending", path |-> "running", result |-> NoStrategy,
     reachability |-> 0, session |-> "none", closeCalls |-> 0]

\* `new Stagehand(...)` threw: the async function's promise is rejected and
\* neither the try block nor the finally block is entered.
DreamRejected ==
    [pc |-> "settled", promise |-> "rejected", path |-> "rejected", result |-> NoStrategy,
     reachability |-> 0, session |-> "none", closeCalls |-> 0]

\* The value of the catch block of executeDream.
DreamErrorResult(name) ==
    [strategy |-> name, success |-> FALSE, score |-> 0, sideEffects |-> << "dream_error" >>]

\* The value runDreamCycle substitutes for a rejected dream.
DreamCrashedResult(name) ==
    [strategy |-> name, success |-> FALSE, score |-> 0, sideEffects |-> << "dream_crashed" >>]

DreamSuccess_byAggregate(b) == 2 * b.aggregate > AggOne

\* success: scoreBreakdown.reachability > 0.5
DreamSuccess(b) == 2 * b.reachability > One

\* The value of the try block of executeDream for a scored page.
DreamScoredResult(name, b) ==
    [strategy |-> name, success |-> DreamSuccess(b), score |-> b.aggregate,
     sideEffects |-> IF b.safety < One THEN << "potential_side_effects" >> ELSE << >>]

DreamCaught_noFinally(d, name) ==
    [d EXCEPT !.pc = "settled", !.promise = "fulfilled", !.path = "caught",
              !.result = DreamErrorResult(name)]

\* An exception inside the try block: the catch block produces the result,
\* which is held until the finally block has run.
DreamCaught(d, name) ==
    [d EXCEPT !.pc = "closing", !.path = "caught", !.result = DreamErrorResult(name)]

DreamRollbackApi_trigger == "rollback"

\* The deployment-API call of the rollback_simulation dream: listRecentDeployments.
DreamRollbackApi == "list_deployments"

JoinReady_failFast(ds) ==
    \/ \A i \in 1..Len(ds) : ds[i].promise # "pending"
    \/ \E i \in 1..Len(ds) : ds[i].promise = "rejected"

\* Promise.allSettled: resolves when every dream has settled.
JoinReady(ds) == \A i \in 1..Len(ds) : ds[i].promise # "pending"

CollectResults_dropRejected(ss, ds) ==
    LET kept == SelectSeq([i \in 1..Len(ss) |-> i], LAMBDA i : ds[i].promise = "fulfilled")
    IN  [k \in 1..Len(kept) |-> ds[kept[k]].result]

\* dreams.map((d, i) => d.status === "fulfilled" ? d.value : { crashed })
CollectResults(ss, ds) ==
    [i \in 1..Len(ss) |->
        IF ds[i].promise = "fulfilled" THEN ds[i].result
        ELSE DreamCrashedResult(ss[i].name)]

RECURSIVE InsertByScore(_, _)
InsertByScore(sorted, x) ==
    IF sorted = << >> THEN << x >>
    ELSE IF x.score - Head(sorted).score > 0
         THEN << x >> \o sorted
         ELSE << Head(sorted) >> \o InsertByScore(Tail(sorted), x)

RECURSIVE SortByScoreFrom(_, _)
SortByScoreFrom(sorted, rest) ==
    IF rest = << >> THEN sorted
    ELSE SortByScoreFrom(InsertByScore(sorted, Head(rest)), Tail(rest))

\* results.sort((a, b) => b.score - a.score), a stable sort
SortByScore(rs) == SortByScoreFrom(<< >>, rs)

Qualifies(r) == r.success /\ 2 * r.score > AggOne

FindBest_ignoresSuccess(rs) ==
    IF \E k \in 1..Len(rs) : 2 * rs[k].score > AggOne
    THEN rs[CHOOSE k \in 1..Len(rs) :
                /\ 2 * rs[k].score > AggOne
                /\ \A j \in 1..(k - 1) : ~(2 * rs[j].score > AggOne)]
    ELSE NoStrategy

\* results.find((r) => r.success && r.score > 0.5) ?? null
FindBest(rs) ==
    IF \E k \in 1..Len(rs) : Qualifies(rs[k])
    THEN rs[CHOOSE k \in 1..Len(rs) :
                /\ Qualifies(rs[k])
                /\ \A j \in 1..(k - 1) : ~Qualifies(rs[j])]
    ELSE NoStrategy

(***************************************************************************)
(* The action dispatcher (actions/dispatcher.ts)                           *)
(***************************************************************************)

resolveActionForStrategy_tokenOnly(strategyName, profileAction, cfg) ==
    IF strategyName = "rollback_simulation"
    THEN IF cfg.vercelToken
         THEN [type |-> "vercel_rollback", deploymentId |-> cfg.vercelGoodDeploymentId]
         ELSE profileAction
    ELSE profileAction

\* resolveActionForStrategy(strategyName, profileAction, config): every case
\* of the switch other than rollback_simulation returns profileAction
resolveActionForStrategy(strategyName, profileAction, cfg) ==
    IF strategyName = "rollback_simulation"
    THEN IF cfg.vercelToken /\ cfg.vercelProjectId
         THEN [type |-> "vercel_rollback", deploymentId |-> cfg.vercelGoodDeploymentId]
         ELSE profileAction
    ELSE profileAction

(***************************************************************************)
(* Bounds and input sets                                                   *)
(***************************************************************************)

\* Longest list of LLM-suggested strategies drawn for selectStrategies.
MaxSuggested == 2

\* Longest pastIncidents list drawn for selectStrategies.
MaxPast == 2

SeqsUpTo(S, n) == UNION { [1..k -> S] : k \in 0..n }

IncidentTypes == { "visual_occlusion", "element_unclickable" }

SuggestedNames == { "rollback_simulation", "css_patch_targeted", "dom_removal", "cache_clear" }

\* 0.8 (not a past win), 0.9 and 0.95
PastScores == { (8 * AggOne) \div 10, (9 * AggOne) \div 10, (95 * AggOne) \div 100 }

PastEntries == [ score : PastScores, strategyUsed : { "dom_removal", "css_patch_targeted" } ]

\* 0, 0.1, 0.4, 0.5, 0.7 and 1.0
SubScores == { 0, One \div 10, (4 * One) \div 10, One \div 2, (7 * One) \div 10, One }

Durations == { 0, 1000, 4999, 5000, 5001, 60000, 119999, 120000, 120001, 200000 }

(***************************************************************************)
(* SpecScore: evaluatePageHealth, then the latency back-fill and the       *)
(* recomputation of the aggregate in executeDream.                         *)
(***************************************************************************)

InitScore ==
    /\ pc = "score_start"
    /\ durationMs \in Durations
    /\ \E r \in SubScores, v \in SubScores, s \in SubScores :
          breakdown = [reachability |-> r, visualIntegrity |-> v, latency |-> One,
                       safety |-> s, aggregate |-> 0]
    /\ incident = Null
    /\ diagnosis = Null
    /\ pastIncidents = << >>
    /\ strategies = << >>
    /\ dreams = << >>
    /\ report = NoReport
    /\ apiLog = << >>
    /\ config = Null
    /\ profile = Null
    /\ actionResult = NoAction
    /\ runResult = NoRunResult
    /\ StoreIdle
    /\ resolvedAction = NoResolved
    /\ AuxIdle

\* const scoreBreakdown = await evaluatePageHealth(page, profile, config)
ScoreEvaluate ==
    /\ pc = "score_start"
    /\ breakdown' = evaluatePageHealth(breakdown.reachability,
                                       breakdown.visualIntegrity, breakdown.safety)
    /\ pc' = "evaluated"
    /\ UNCHANGED << incident, diagnosis, pastIncidents, strategies, dreams, report,
                    apiLog, config, profile, actionResult, runResult, durationMs >>
    /\ UNCHANGED << storeVars, auxVars >>
    /\ UNCHANGED resolvedAction

\* scoreBreakdown.latency = scoreLatency(Date.now() - start)
ScoreBackfill ==
    /\ pc = "evaluated"
    /\ breakdown' = [breakdown EXCEPT !.latency = scoreLatency(durationMs)]
    /\ pc' = "backfilled"
    /\ UNCHANGED << incident, diagnosis, pastIncidents, strategies, dreams, report,
                    apiLog, config, profile, actionResult, runResult, durationMs >>
    /\ UNCHANGED << storeVars, auxVars >>
    /\ UNCHANGED resolvedAction

ScoreRecompute_stale ==
    /\ pc = "backfilled"
    /\ pc' = "scored"
    /\ UNCHANGED << incident, diagnosis, pastIncidents, strategies, dreams, report,
                    apiLog, config, profile, actionResult, runResult, durationMs,
                    breakdown >>
    /\ UNCHANGED << storeVars, auxVars >>
    /\ UNCHANGED resolvedAction

\* scoreBreakdown.aggregate = computeScore(scoreBreakdown)
ScoreRecompute ==
    /\ pc = "backfilled"
    /\ breakdown' = [breakdown EXCEPT !.aggregate = computeScore(breakdown)]
    /\ pc' = "scored"
    /\ UNCHANGED << incident, diagnosis, pastIncidents, strategies, dreams, report,
                    apiLog, config, profile, actionResult, runResult, durationMs >>
    /\ UNCHANGED << storeVars, auxVars >>
    /\ UNCHANGED resolvedAction

\* return { strategy, success, score: scoreBreakdown.aggregate, ... }
ScoreReturn ==
    /\ pc = "scored"
    /\ dreams' = << DreamScoredResult("css_patch_targeted", breakdown) >>
    /\ pc' = "returned"
    /\ UNCHANGED << incident, diagnosis, pastIncidents, strategies, report, apiLog,
                    config, profile, actionResult, runResult, durationMs, breakdown >>
    /\ UNCHANGED << storeVars, auxVars >>
    /\ UNCHANGED resolvedAction

NextScore == ScoreEvaluate \/ ScoreBackfill \/ ScoreRecompute \/ ScoreReturn

SpecScore == InitScore /\ [][NextScore]_vars

(***************************************************************************)
(* SpecSelect: selectStrategies on every bounded input.                    *)
(***************************************************************************)

InitSelect ==
    /\ pc = "select_start"
    /\ \E t \in IncidentTypes : incident = [type |-> t]
    /\ \E sug \in SeqsUpTo(SuggestedNames, MaxSuggested) :
          diagnosis = [suggestedStrategies |-> sug]
    /\ pastIncidents \in SeqsUpTo(PastEntries, MaxPast)
    /\ strategies = << >>
    /\ dreams = << >>
    /\ report = NoReport
    /\ apiLog = << >>
    /\ config = Null
    /\ profile = Null
    /\ actionResult = NoAction
    /\ runResult = NoRunResult
    /\ durationMs = 0
    /\ breakdown = Null
    /\ StoreIdle
    /\ resolvedAction = NoResolved
    /\ AuxIdle

\* const strategies = selectStrategies(context, diagnosis, pastIncidents)
SelectStep ==
    /\ pc = "select_start"
    /\ strategies' = selectStrategies([incident |-> incident], diagnosis, pastIncidents)
    /\ pc' = "selected"
    /\ UNCHANGED << incident, diagnosis, pastIncidents, dreams, report, apiLog,
                    config, profile, actionResult, runResult, durationMs, breakdown >>
    /\ UNCHANGED << storeVars, auxVars >>
    /\ UNCHANGED resolvedAction

NextSelect == SelectStep

SpecSelect == InitSelect /\ [][NextSelect]_vars

(***************************************************************************)
(* SpecIncident: runPerception tests every critical flow of the profile,   *)
(* then buildIncidentFromPerception builds the incident.                   *)
(***************************************************************************)

\* The largest number of critical flows of a profile
MaxFlows == 4

RunIdle ==
    /\ incident = NoIncident
    /\ diagnosis = Null
    /\ pastIncidents = << >>
    /\ strategies = << >>
    /\ dreams = << >>
    /\ report = NoReport
    /\ apiLog = << >>
    /\ config = Null
    /\ profile = Null
    /\ actionResult = NoAction
    /\ runResult = NoRunResult
    /\ durationMs = 0
    /\ breakdown = Null
    /\ resolvedAction = NoResolved

InitIncident ==
    /\ pc = "testing"
    /\ incident = NoIncident
    /\ profile \in [ criticalFlows : 1..MaxFlows ]
    /\ diagnosis = Null
    /\ pastIncidents = << >>
    /\ strategies = << >>
    /\ dreams = << >>
    /\ report = NoReport
    /\ apiLog = << >>
    /\ config = Null
    /\ actionResult = NoAction
    /\ runResult = NoRunResult
    /\ durationMs = 0
    /\ breakdown = Null
    /\ StoreIdle
    /\ resolvedAction = NoResolved
    /\ AuxIdle

\* for (const flow of profile.criticalFlows) { flowResults.push(await testCriticalFlow(...)) }
TestFlow ==
    /\ pc = "testing"
    /\ Len(perception.flowResults) < profile.criticalFlows
    /\ \E r \in FlowOutcomes :
          perception' = [perception EXCEPT !.flowResults = Append(@, r)]
    /\ UNCHANGED << pc, runVars, auxVars, redis, calls, query, found, cosine >>

\* runPerception returns { healthy, flowResults, ... }
PerceptionDone ==
    /\ pc = "testing"
    /\ Len(perception.flowResults) = profile.criticalFlows
    /\ perception' = [perception EXCEPT !.healthy = AllFlowsPassed(perception.flowResults)]
    /\ pc' = "perceived"
    /\ UNCHANGED << runVars, auxVars, redis, calls, query, found, cosine >>

\* const incident = buildIncidentFromPerception(perception, profile)
BuildIncident ==
    /\ pc = "perceived"
    /\ incident' = buildIncidentFromPerception(perception, profile)
    /\ pc' = "built"
    /\ UNCHANGED << diagnosis, pastIncidents, strategies, dreams, report, apiLog,
                    config, profile, actionResult, runResult, durationMs, breakdown >>
    /\ UNCHANGED << storeVars, auxVars >>
    /\ UNCHANGED resolvedAction

NextIncident == TestFlow \/ PerceptionDone \/ BuildIncident

SpecIncident == InitIncident /\ [][NextIncident]_vars

(***************************************************************************)
(* SpecStore: storeMemory calls, one after the other or interleaved at     *)
(* their awaits, then a getRecentMemories call on the settled store.       *)
(***************************************************************************)

\* The largest number of storeMemory calls
MaxStores == 2

StoreIds == 1..MaxStores

\* Timestamps (milliseconds) of the stored incidents
StoreTimestamps == { 1000, 2000 }

\* The IncidentMemory objects handed to storeMemory
StoreMemories ==
    { [incidentId |-> id, timestamp |-> ToISOString(ts), type |-> "visual_occlusion",
       strategyUsed |-> "dom_removal", score |-> (9 * AggOne) \div 10] :
        id \in StoreIds, ts \in StoreTimestamps }

\* The embedding argument: absent, or a vector
StoreEmbeddings == { << >>, << 1, 0 >> }

\* getRecentMemories limits: the smallest that holds two records, and the default
RecentLimits == { 2, 10 }

InitStore ==
    /\ pc = "storing"
    /\ RunIdle
    /\ AuxIdle
    /\ StoreIdle

\* storeMemory(memory, embedding) is called
StoreStart ==
    /\ pc = "storing"
    /\ Len(calls) < MaxStores
    /\ \E m \in StoreMemories, e \in StoreEmbeddings :
          calls' = Append(calls, [memory |-> m, embedding |-> e, pc |-> "hset"])
    /\ UNCHANGED << pc, runVars, auxVars, perception, redis, query, found, cosine >>

StoreWriteRecord_indexFirst(i) ==
    /\ calls[i].pc = "hset"
    /\ redis' = [redis EXCEPT !.index = StoreIndexInsert(@, calls[i].memory)]
    /\ calls' = [calls EXCEPT
                    ![i].pc = IF Len(calls[i].embedding) > 0 THEN "set" ELSE "zadd"]

\* await this.redis.hset(key, { data, type, score, timestamp })
StoreWriteRecord(i) ==
    /\ calls[i].pc = "hset"
    /\ redis' = [redis EXCEPT
                    !.hash = HSet(@, calls[i].memory.incidentId, MemoryFields(calls[i].memory))]
    /\ calls' = [calls EXCEPT
                    ![i].pc = IF Len(calls[i].embedding) > 0 THEN "set" ELSE "zadd"]

\* await this.redis.set(EMBEDDING_PREFIX + incidentId, JSON.stringify(embedding))
StoreWriteEmbedding(i) ==
    /\ calls[i].pc = "set"
    /\ redis' = [redis EXCEPT
                    !.embedding = SetKey(@, calls[i].memory.incidentId,
                                         JSONstringify(calls[i].embedding))]
    /\ calls' = [calls EXCEPT ![i].pc = "zadd"]

\* await this.redis.zadd(MEMORY_INDEX, Date.parse(memory.timestamp), incidentId)
StoreInsertIndex(i) ==
    /\ calls[i].pc = "zadd"
    /\ redis' = [redis EXCEPT !.index = StoreIndexInsert(@, calls[i].memory)]
    /\ calls' = [calls EXCEPT ![i].pc = "done"]

\* a Redis command of the call rejects: storeMemory throws at that await
StoreThrows(i) ==
    /\ calls[i].pc \in { "hset", "set", "zadd" }
    /\ calls' = [calls EXCEPT ![i].pc = "failed"]
    /\ UNCHANGED redis

StoreStep ==
    /\ pc = "storing"
    /\ \E i \in 1..Len(calls) :
          \/ StoreWriteRecord(i)
          \/ StoreWriteEmbedding(i)
          \/ StoreInsertIndex(i)
          \/ StoreThrows(i)
    /\ UNCHANGED << pc, runVars, auxVars, perception, query, found, cosine >>

StoreSettled == \A i \in 1..Len(calls) : calls[i].pc \in { "done", "failed" }

\* getRecentMemories(limit) on the store once every storeMemory call has settled
GetRecent ==
    /\ pc = "storing"
    /\ StoreSettled
    /\ \E limit \in RecentLimits :
          /\ query' = [NoQuery EXCEPT !.limit = limit]
          /\ found' = getRecentMemories(redis, limit)
    /\ pc' = "retrieved"
    /\ UNCHANGED << runVars, auxVars, perception, redis, calls, cosine >>

\* A reader that runs while storeMemory calls are under way, first step:
\* const ids = await this.redis.zrevrange(MEMORY_INDEX, 0, limit - 1)
ReaderIndex ==
    /\ pc = "storing"
    /\ query = NoQuery
    /\ calls # << >>
    /\ ~StoreSettled
    /\ query' = [type |-> "reading", embedding |-> << >>, limit |-> 10,
                 ids |-> ZRevRange(redis.index, 0, 10 - 1)]
    /\ UNCHANGED << pc, runVars, auxVars, perception, redis, calls, found, cosine >>

\* the reader's second step: hget(MEMORY_PREFIX + id, "data") for each id it
\* was given, a missing record being skipped
ReaderRecords ==
    /\ pc = "storing"
    /\ query.type = "reading"
    /\ found' = ReadMemories(redis.hash, query.ids)
    /\ query' = [query EXCEPT !.type = "read"]
    /\ UNCHANGED << pc, runVars, auxVars, perception, redis, calls, cosine >>

NextStore == StoreStart \/ StoreStep \/ ReaderIndex \/ ReaderRecords \/ GetRecent

SpecStore == InitStore /\ [][NextStore]_vars

(***************************************************************************)
(* SpecCosine: cosineSimilarity on every pair of bounded vectors, in both  *)
(* argument orders.                                                        *)
(***************************************************************************)

\* The largest number of components of a vector
MaxDim == 2

\* Component values
Components == { -1, 0, 1, 2 }

Vectors == SeqsUpTo(Components, MaxDim)

InitCosine ==
    /\ pc = "cosine_start"
    /\ RunIdle
    /\ AuxIdle
    /\ perception = NoPerception
    /\ redis = EmptyRedis
    /\ calls = << >>
    /\ query = NoQuery
    /\ found = << >>
    /\ \E a \in Vectors, b \in Vectors :
          cosine = [a |-> a, b |-> b, similarity |-> 0, reversed |-> 0]

\* const similarity = cosineSimilarity(queryEmbedding, storedEmbedding)
CosineCompute ==
    /\ pc = "cosine_start"
    /\ cosine' = [cosine EXCEPT !.similarity = cosineSimilarity(cosine.a, cosine.b)]
    /\ pc' = "cosine_done"
    /\ UNCHANGED << runVars, auxVars, perception, redis, calls, query, found >>

\* the same call with the arguments exchanged
CosineReverse ==
    /\ pc = "cosine_done"
    /\ cosine' = [cosine EXCEPT !.reversed = cosineSimilarity(cosine.b, cosine.a)]
    /\ pc' = "cosine_both"
    /\ UNCHANGED << runVars, auxVars, perception, redis, calls, query, found >>

NextCosine == CosineCompute \/ CosineReverse

SpecCosine == InitCosine /\ [][NextCosine]_vars

(***************************************************************************)
(* SpecFind: findSimilarIncidents on stores of completed storeMemory       *)
(* calls: small stores of every content, and stores around the size of the *)
(* recency window.                                                         *)
(***************************************************************************)

\* The largest number of records of a store whose content is enumerated
MaxRecords == 3

\* Embeddings stored with a record: none, or a vector
RecordEmbeddings == { << >>, << 1, 0 >>, << 1, 1 >> }

\* The k-th stored record: incident inc_<k>, stored at k seconds
RecordOf(k, type) ==
    [incidentId |-> k, timestamp |-> ToISOString(k * 1000), type |-> type,
     strategyUsed |-> "dom_removal", score |-> (9 * AggOne) \div 10]

\* The Redis state after storeMemory has completed for records 1..n, with
\* the types and the embeddings given per record
StoreOf(n, types, embeddings) ==
    [hash |-> { [id |-> k, fields |-> MemoryFields(RecordOf(k, types[k]))] : k \in 1..n },
     embedding |-> { [id |-> k, value |-> JSONstringify(embeddings[k])] :
                        k \in { j \in 1..n : Len(embeddings[j]) > 0 } },
     index |-> { [member |-> k, score |-> DateParse(RecordOf(k, types[k]).timestamp)] :
                    k \in 1..n }]

SmallStores ==
    UNION { { StoreOf(n, types, embeddings) :
                types \in [1..n -> IncidentTypes], embeddings \in [1..n -> RecordEmbeddings] } :
            n \in 0..MaxRecords }

\* Stores of 50, 51 and 52 records without embeddings, all element_unclickable
\* but one visual_occlusion record: the oldest, the second oldest or the newest
WindowStores ==
    { StoreOf(n,
              [k \in 1..n |-> IF k = special THEN "visual_occlusion"
                              ELSE "element_unclickable"],
              [k \in 1..n |-> << >>]) :
        n \in RecencyStop..(RecencyStop + 2), special \in { 1, 2, RecencyStop } }

\* The limit argument: 0, 1, 2 and the default 5
FindLimits == { 0, 1, 2, 5 }

\* The queryEmbedding argument: absent, or a vector
QueryEmbeddings == { << >>, << 1, 0 >> }

InitFind ==
    /\ pc = "find_start"
    /\ RunIdle
    /\ AuxIdle
    /\ perception = NoPerception
    /\ calls = << >>
    /\ found = << >>
    /\ cosine = NoCosine
    /\ redis \in SmallStores \cup WindowStores
    /\ query \in [ type : IncidentTypes, embedding : QueryEmbeddings, limit : FindLimits ]

\* pastIncidents = await memory.findSimilarIncidents(type, queryEmbedding, limit)
Find ==
    /\ pc = "find_start"
    /\ found' = findSimilarIncidents(redis, query.type, query.embedding, query.limit)
    /\ pc' = "found"
    /\ UNCHANGED << runVars, auxVars, perception, redis, calls, query, cosine >>

NextFind == Find

SpecFind == InitFind /\ [][NextFind]_vars

(***************************************************************************)
(* SpecResolve: resolveActionForStrategy on every strategy name, profile   *)
(* action and credential configuration.                                    *)
(***************************************************************************)

\* The strategy names of the switch, and one it does not list
ResolveStrategies ==
    { "rollback_simulation", "cache_clear", "css_patch_targeted", "dom_removal",
      "style_override", "js_injection", "restart_service" }

ResolveConfigs ==
    [ vercelToken : BOOLEAN, vercelProjectId : BOOLEAN,
      vercelGoodDeploymentId : { "dpl_good" } ]

\* One action of every type of RemediationActionSchema
ResolveProfileActions ==
    { [type |-> "vercel_rollback", deploymentId |-> "dpl_profile"],
      [type |-> "webhook"], [type |-> "github_issue"], [type |-> "slack_alert"],
      [type |-> "script"], [type |-> "none"] }

InitResolve ==
    /\ pc = "resolve_start"
    /\ \E n \in ResolveStrategies :
          report = [dreams |-> << >>,
                    bestStrategy |-> [strategy |-> n, success |-> TRUE,
                                      score |-> AggOne, sideEffects |-> << >>]]
    /\ config \in ResolveConfigs
    /\ profile \in [ remediationAction : ResolveProfileActions ]
    /\ incident = NoIncident
    /\ diagnosis = Null
    /\ pastIncidents = << >>
    /\ strategies = << >>
    /\ dreams = << >>
    /\ apiLog = << >>
    /\ actionResult = NoAction
    /\ runResult = NoRunResult
    /\ durationMs = 0
    /\ breakdown = Null
    /\ resolvedAction = NoResolved
    /\ AuxIdle
    /\ StoreIdle

\* const resolvedAction = resolveActionForStrategy(strategyName, profileAction, config)
Resolve ==
    /\ pc = "resolve_start"
    /\ resolvedAction' = resolveActionForStrategy(report.bestStrategy.strategy,
                                                  profile.remediationAction, config)
    /\ pc' = "resolved"
    /\ UNCHANGED << incident, diagnosis, pastIncidents, strategies, dreams, report,
                    apiLog, config, profile, actionResult, runResult, durationMs, breakdown >>
    /\ UNCHANGED << storeVars, auxVars >>

NextResolve == Resolve

SpecResolve == InitResolve /\ [][NextResolve]_vars

(***************************************************************************)
(* Spec: one run of runAgentWithProfile, with the dream cycle inside.      *)
(***************************************************************************)

\* pastIncidents lists the memory lookup hands to the run
RunPasts == { << >>, << [score |-> (9 * AggOne) \div 10, strategyUsed |-> "dom_removal"] >> }

\* suggestedStrategies of the diagnosis: the list the parse-failure default and
\* an LLM answer for an overlay both give
RunSuggestions == { << "rollback_simulation", "css_patch_targeted" >> }

\* Page states a dream can end in: still blocked (reachability 0.5, otherwise
\* intact) and unblocked but damaged (no expected element, safety 0.5)
DreamPages ==
    { [r |-> One \div 2, v |-> One, s |-> One],
      [r |-> One, v |-> 0, s |-> One \div 2] }

\* Elapsed times of a dream
DreamDurations == { 1000, 120000 }

Configs == [ vercelToken : BOOLEAN, vercelProjectId : { TRUE }, vercelGoodDeploymentId : { "dpl_good" } ]

ProfileActions == { [type |-> "webhook"], [type |-> "none"] }

\* Action types whose execution calls a production or notification target
MutatingCalls == { "vercel_rollback", "rollback", "webhook", "github_issue", "slack_alert", "script" }

Init ==
    /\ pc = "perceive"
    /\ incident = Null
    /\ diagnosis = Null
    /\ pastIncidents = << >>
    /\ strategies = << >>
    /\ dreams = << >>
    /\ report = NoReport
    /\ apiLog = << >>
    /\ config \in Configs
    /\ profile \in [ remediationAction : ProfileActions ]
    /\ actionResult = NoAction
    /\ runResult = NoRunResult
    /\ durationMs = 0
    /\ breakdown = Null
    /\ StoreIdle
    /\ resolvedAction = NoResolved
    /\ AuxIdle

\* const perception = await runPerception(profile, agentConfig): all flows pass
PerceiveHealthy ==
    /\ pc = "perceive"
    /\ pc' = "done"
    /\ runResult' = [phase |-> "healthy", verified |-> FALSE]
    /\ UNCHANGED << incident, diagnosis, pastIncidents, strategies, dreams, report,
                    apiLog, config, profile, actionResult, durationMs, breakdown >>
    /\ UNCHANGED << storeVars, auxVars >>
    /\ UNCHANGED resolvedAction

\* a flow failed: buildIncidentFromPerception builds the incident
PerceiveIncident ==
    /\ pc = "perceive"
    /\ \E t \in IncidentTypes : incident' = [type |-> t]
    /\ pc' = "recall"
    /\ UNCHANGED << diagnosis, pastIncidents, strategies, dreams, report, apiLog,
                    config, profile, actionResult, runResult, durationMs, breakdown >>
    /\ UNCHANGED << storeVars, auxVars >>
    /\ UNCHANGED resolvedAction

\* pastIncidents = await memory.findSimilarIncidents(...), or [] without memory
RecallPast ==
    /\ pc = "recall"
    /\ pastIncidents' \in RunPasts
    /\ pc' = "diagnose"
    /\ UNCHANGED << incident, diagnosis, strategies, dreams, report, apiLog,
                    config, profile, actionResult, runResult, durationMs, breakdown >>
    /\ UNCHANGED << storeVars, auxVars >>
    /\ UNCHANGED resolvedAction

\* const diagnosis = await diagnoseRootCause(...)
Diagnose ==
    /\ pc = "diagnose"
    /\ \E sug \in RunSuggestions : diagnosis' = [suggestedStrategies |-> sug]
    /\ pc' = "select"
    /\ UNCHANGED << incident, pastIncidents, strategies, dreams, report, apiLog,
                    config, profile, actionResult, runResult, durationMs, breakdown >>
    /\ UNCHANGED << storeVars, auxVars >>
    /\ UNCHANGED resolvedAction

\* the LLM request of diagnoseRootCause rejects: runDreamCycle and the run throw
DiagnoseThrows ==
    /\ pc = "diagnose"
    /\ pc' = "done"
    /\ runResult' = [phase |-> "thrown", verified |-> FALSE]
    /\ UNCHANGED << incident, diagnosis, pastIncidents, strategies, dreams, report,
                    apiLog, config, profile, actionResult, durationMs, breakdown >>
    /\ UNCHANGED << storeVars, auxVars >>
    /\ UNCHANGED resolvedAction

\* selectStrategies, then strategies.map(executeDream): every dream runs up to
\* its first await before Promise.allSettled is awaited.
StartDreams ==
    /\ pc = "select"
    /\ LET ss == selectStrategies([incident |-> incident], diagnosis, pastIncidents)
       IN  /\ strategies' = ss
           /\ \E crashed \in SUBSET (1..Len(ss)) :
                 dreams' = [i \in 1..Len(ss) |->
                               IF i \in crashed THEN DreamRejected ELSE DreamLaunched]
    /\ pc' = "dreaming"
    /\ UNCHANGED << incident, diagnosis, pastIncidents, report, apiLog, config,
                    profile, actionResult, runResult, durationMs, breakdown >>
    /\ UNCHANGED << storeVars, auxVars >>
    /\ UNCHANGED resolvedAction

DreamUnchanged ==
    /\ UNCHANGED << pc, incident, diagnosis, pastIncidents, strategies, report,
                    config, profile, actionResult, runResult, durationMs, breakdown >>
    /\ UNCHANGED << storeVars, auxVars >>
    /\ UNCHANGED resolvedAction

\* await stagehand.init()
DreamInit(i) ==
    /\ dreams[i].pc = "init"
    /\ \/ dreams' = [dreams EXCEPT ![i].pc = "navigating", ![i].session = "open"]
       \/ \E sess \in { "none", "open" } :
             dreams' = [dreams EXCEPT
                           ![i] = DreamCaught([dreams[i] EXCEPT !.session = sess],
                                              strategies[i].name)]
    /\ UNCHANGED apiLog
    /\ DreamUnchanged

\* await page.goto(context.targetUrl, ...)
DreamNavigate(i) ==
    /\ dreams[i].pc = "navigating"
    /\ \/ dreams' = [dreams EXCEPT ![i].pc = "applying"]
       \/ dreams' = [dreams EXCEPT ![i] = DreamCaught(dreams[i], strategies[i].name)]
    /\ UNCHANGED apiLog
    /\ DreamUnchanged

\* switch (strategy.name): rollback_simulation lists the deployments and then
\* navigates, reloads (either can throw) or removes the blocker
DreamApplyRollback(i) ==
    /\ dreams[i].pc = "applying"
    /\ strategies[i].name = "rollback_simulation"
    /\ apiLog' = Append(apiLog, DreamRollbackApi)
    /\ \/ dreams' = [dreams EXCEPT ![i].pc = "evaluating"]
       \/ dreams' = [dreams EXCEPT ![i] = DreamCaught(dreams[i], strategies[i].name)]
    /\ DreamUnchanged

\* every other strategy mutates only its own page and absorbs its exceptions
DreamApplyLocal(i) ==
    /\ dreams[i].pc = "applying"
    /\ strategies[i].name # "rollback_simulation"
    /\ dreams' = [dreams EXCEPT ![i].pc = "evaluating"]
    /\ UNCHANGED apiLog
    /\ DreamUnchanged

\* evaluatePageHealth, the latency back-fill, computeScore and the return value
DreamEvaluate(i) ==
    /\ dreams[i].pc = "evaluating"
    /\ \E page \in DreamPages, elapsed \in DreamDurations :
          LET b0 == evaluatePageHealth(page.r, page.v, page.s)
              b1 == [b0 EXCEPT !.latency = scoreLatency(elapsed)]
              b2 == [b1 EXCEPT !.aggregate = computeScore(b1)]
          IN  dreams' = [dreams EXCEPT
                            ![i].pc = "closing",
                            ![i].path = "scored",
                            ![i].reachability = b2.reachability,
                            ![i].result = DreamScoredResult(strategies[i].name, b2)]
    /\ UNCHANGED apiLog
    /\ DreamUnchanged

\* finally { await stagehand.close().catch(() => {}) }: the close either ends
\* the session or fails and is swallowed; then the promise settles.
DreamClose(i) ==
    /\ dreams[i].pc = "closing"
    /\ \E after \in IF dreams[i].session = "open" THEN { "closed", "leaked" } ELSE { "none" } :
          dreams' = [dreams EXCEPT
                        ![i].pc = "settled",
                        ![i].promise = "fulfilled",
                        ![i].session = after,
                        ![i].closeCalls = @ + 1]
    /\ UNCHANGED apiLog
    /\ DreamUnchanged

DreamStep ==
    \E i \in 1..Len(dreams) :
        \/ DreamInit(i)
        \/ DreamNavigate(i)
        \/ DreamApplyRollback(i)
        \/ DreamApplyLocal(i)
        \/ DreamEvaluate(i)
        \/ DreamClose(i)

\* the await of Promise.allSettled resumes: map, sort, find
Rank ==
    /\ pc = "dreaming"
    /\ JoinReady(dreams)
    /\ LET results == SortByScore(CollectResults(strategies, dreams))
       IN  report' = [dreams |-> results, bestStrategy |-> FindBest(results)]
    /\ pc' = "ranked"
    /\ UNCHANGED << incident, diagnosis, pastIncidents, strategies, dreams, apiLog,
                    config, profile, actionResult, runResult, durationMs, breakdown >>
    /\ UNCHANGED << storeVars, auxVars >>
    /\ UNCHANGED resolvedAction

\* if (!dreamReport.bestStrategy) return { phase: "failed", ... }
NoViableStrategy ==
    /\ pc = "ranked"
    /\ report.bestStrategy = NoStrategy
    /\ pc' = "done"
    /\ runResult' = [phase |-> "failed", verified |-> FALSE]
    /\ UNCHANGED << incident, diagnosis, pastIncidents, strategies, dreams, report,
                    apiLog, config, profile, actionResult, durationMs, breakdown >>
    /\ UNCHANGED << storeVars, auxVars >>
    /\ UNCHANGED resolvedAction

\* const actionResult = await executeRemediationAction(profile, enrichedIncident,
\* bestStrategy.strategy, agentConfig)
Act ==
    /\ pc = "ranked"
    /\ report.bestStrategy # NoStrategy
    /\ LET resolved == resolveActionForStrategy(report.bestStrategy.strategy,
                                                profile.remediationAction, config)
       IN  /\ resolvedAction' = resolved
           /\ IF resolved.type = "none"
              THEN /\ actionResult' = [success |-> TRUE, actionType |-> "none"]
                   /\ UNCHANGED apiLog
              ELSE /\ \E ok \in BOOLEAN :
                         actionResult' = [success |-> ok, actionType |-> resolved.type]
                   /\ apiLog' = Append(apiLog, resolved.type)
    /\ pc' = "acted"
    /\ UNCHANGED << incident, diagnosis, pastIncidents, strategies, dreams, report,
                    config, profile, runResult, durationMs, breakdown >>
    /\ UNCHANGED << storeVars, auxVars >>

\* the verification re-run of perception, and the final phase
VerifyAndFinish ==
    /\ pc = "acted"
    /\ \E verified \in
           IF actionResult.success /\ profile.remediationAction.type # "none"
           THEN BOOLEAN ELSE { FALSE } :
          runResult' = [phase |-> IF verified THEN "verified"
                                  ELSE IF actionResult.success THEN "resolved"
                                  ELSE "failed",
                        verified |-> verified]
    /\ pc' = "done"
    /\ UNCHANGED << incident, diagnosis, pastIncidents, strategies, dreams, report,
                    apiLog, config, profile, actionResult, durationMs, breakdown >>
    /\ UNCHANGED << storeVars, auxVars >>
    /\ UNCHANGED resolvedAction

Next ==
    \/ PerceiveHealthy
    \/ PerceiveIncident
    \/ RecallPast
    \/ Diagnose
    \/ DiagnoseThrows
    \/ StartDreams
    \/ DreamStep
    \/ Rank
    \/ NoViableStrategy
    \/ Act
    \/ VerifyAndFinish

Spec == Init /\ [][Next]_vars

(***************************************************************************)
(* SpecAction: one call of executeRemediationAction (actions/vercel.ts),   *)
(* with the request each handler sends and waits for.  The external        *)
(* service answers, fails, or stays silent; a handler that set a timeout   *)
(* is resumed by it.                                                       *)
(***************************************************************************)

ActionTypes == { "vercel_rollback", "webhook", "github_issue", "slack_alert", "script", "none" }

\* The timeout a handler puts on its request, in ms: AbortSignal.timeout of
\* handleWebhook and handleSlackAlert, the exec option of handleScript; 0 for
\* the fetch of rollbackToGoodDeployment and of handleGithubIssue, which set none
ActionTimeout(type) ==
    CASE type = "webhook" -> 30000
      [] type = "slack_alert" -> 10000
      [] type = "script" -> 60000
      [] OTHER -> 0

\* How a request can end: a 2xx answer (exit code 0 for a script), another
\* answer (a non-zero exit), a rejection, an answer whose body cannot be read
RequestOutcomes(type) ==
    IF type \in { "vercel_rollback", "github_issue" }
    THEN { "ok", "non_ok", "rejected", "bad_body" }
    ELSE { "ok", "non_ok", "rejected" }

HandlerReturns(type, success, message) ==
    [thrown |-> FALSE, success |-> success, actionType |-> type, message |-> message]

HandlerThrows(type) ==
    [thrown |-> TRUE, success |-> FALSE, actionType |-> type, message |-> Null]

\* What the handler of an action type does with the outcome of its request:
\* rollbackToGoodDeployment and handleScript catch everything themselves, the
\* three fetch handlers let a rejection and an unreadable body escape
HandlerOutcome(type, outcome) ==
    CASE type = "vercel_rollback" ->
            IF outcome = "ok" THEN HandlerReturns(type, TRUE, "Successfully triggered rollback")
            ELSE IF outcome = "non_ok" THEN HandlerReturns(type, FALSE, "Rollback API returned")
            ELSE HandlerReturns(type, FALSE, "Rollback failed")
      [] type = "webhook" ->
            IF outcome = "ok" THEN HandlerReturns(type, TRUE, "Webhook delivered")
            ELSE IF outcome = "non_ok" THEN HandlerReturns(type, FALSE, "Webhook failed")
            ELSE HandlerThrows(type)
      [] type = "github_issue" ->
            IF outcome = "ok" THEN HandlerReturns(type, TRUE, "GitHub issue created")
            ELSE IF outcome = "non_ok" THEN HandlerReturns(type, FALSE, "GitHub issue creation failed")
            ELSE HandlerThrows(type)
      [] type = "slack_alert" ->
            IF outcome = "ok" THEN HandlerReturns(type, TRUE, "Slack alert sent")
            ELSE IF outcome = "non_ok" THEN HandlerReturns(type, FALSE, "Slack alert failed")
            ELSE HandlerThrows(type)
      [] type = "script" ->
            IF outcome = "ok" THEN HandlerReturns(type, TRUE, "Script executed")
            ELSE HandlerReturns(type, FALSE, "Script failed")
      [] OTHER -> HandlerReturns("unknown", FALSE, "Unknown action type")

ExecuteCatch_propagate(type, h) == h

\* catch (error) { return { success: false, actionType: resolvedAction.type,
\* message: `Action failed: ...` } } around the switch of executeRemediationAction
ExecuteCatch(type, h) ==
    IF h.thrown THEN HandlerReturns(type, FALSE, "Action failed") ELSE h

\* The strategy names handed to executeRemediationAction: the one that can
\* upgrade to a rollback, and one that cannot
ActionStrategies == { "rollback_simulation", "dom_removal" }

InitAction ==
    /\ pc = "execute"
    /\ \E n \in ActionStrategies :
          report = [dreams |-> << >>,
                    bestStrategy |-> [strategy |-> n, success |-> TRUE,
                                      score |-> AggOne, sideEffects |-> << >>]]
    /\ config \in ResolveConfigs
    /\ profile \in [ remediationAction : ResolveProfileActions ]
    /\ env \in [ GITHUB_TOKEN : BOOLEAN ]
    /\ incident = NoIncident
    /\ diagnosis = Null
    /\ pastIncidents = << >>
    /\ strategies = << >>
    /\ dreams = << >>
    /\ apiLog = << >>
    /\ actionResult = NoAction
    /\ runResult = NoRunResult
    /\ durationMs = 0
    /\ breakdown = Null
    /\ resolvedAction = NoResolved
    /\ StoreIdle
    /\ service = NoService
    /\ memoryConnected = FALSE
    /\ memoryUpdated = FALSE
    /\ memoryOps = << >>
    /\ phaseLog = << >>
    /\ llmCalls = << >>
    /\ bugEnabled = FALSE
    /\ responses = << >>
    /\ dom = NoDom
    /\ safety = NoSafety
    /\ checks = NoChecks
    /\ llm = NoLlm

ActionUnchanged ==
    /\ UNCHANGED << incident, diagnosis, pastIncidents, strategies, dreams, report,
                    apiLog, config, profile, runResult, durationMs, breakdown >>
    /\ UNCHANGED storeVars
    /\ UNCHANGED << env, memoryConnected, memoryUpdated, memoryOps, phaseLog, llmCalls,
                    bugEnabled, responses, dom, safety, checks, llm >>

\* executeRemediationAction up to the first await of the handler: the
\* resolution, the switch, and the answers that need no request ("none", and
\* github_issue without GITHUB_TOKEN)
ExecuteStart ==
    /\ pc = "execute"
    /\ LET resolved == resolveActionForStrategy(report.bestStrategy.strategy,
                                                profile.remediationAction, config)
       IN  /\ resolvedAction' = resolved
           /\ IF resolved.type = "none"
              THEN /\ actionResult' = [success |-> TRUE, actionType |-> "none",
                                       message |-> "Report only"]
                   /\ pc' = "returned"
                   /\ UNCHANGED service
              ELSE IF resolved.type = "github_issue" /\ ~env.GITHUB_TOKEN
              THEN /\ actionResult' = [success |-> FALSE, actionType |-> "github_issue",
                                       message |-> "GITHUB_TOKEN not set"]
                   /\ pc' = "returned"
                   /\ UNCHANGED service
              ELSE /\ service' = [state |-> "pending", call |-> resolved.type,
                                  timeoutMs |-> ActionTimeout(resolved.type)]
                   /\ pc' = "awaiting"
                   /\ UNCHANGED actionResult
    /\ ActionUnchanged

\* The awaited request ends with the given outcome and the handler, then
\* executeRemediationAction, run to their return
ExecuteResume(outcome) ==
    LET h == ExecuteCatch(service.call, HandlerOutcome(service.call, outcome))
    IN  /\ service' = [service EXCEPT !.state = outcome]
        /\ IF h.thrown
           THEN /\ pc' = "thrown"
                /\ UNCHANGED actionResult
           ELSE /\ pc' = "returned"
                /\ actionResult' = [success |-> h.success, actionType |-> h.actionType,
                                    message |-> h.message]
        /\ UNCHANGED resolvedAction
        /\ ActionUnchanged

\* the external service answers or the request fails
ServiceResponds ==
    /\ pc = "awaiting"
    /\ service.state = "pending"
    /\ \E outcome \in RequestOutcomes(service.call) : ExecuteResume(outcome)

\* the timer of AbortSignal.timeout / of exec fires: the request rejects
RequestTimesOut ==
    /\ pc = "awaiting"
    /\ service.state = "pending"
    /\ service.timeoutMs > 0
    /\ ExecuteResume("timeout")

NextAction == ExecuteStart \/ ServiceResponds \/ RequestTimesOut

SpecAction == InitAction /\ [][NextAction]_vars

\* The agent's own steps are taken when they can be; the external service is
\* under no obligation to answer
SpecActionLive ==
    InitAction /\ [][NextAction]_vars /\ WF_vars(ExecuteStart) /\ WF_vars(RequestTimesOut)

(***************************************************************************)
(* SpecRun: one run of runAgentWithProfile (index.ts) with its memory      *)
(* store and reasoning layer: connection, incident thread, lookup of past  *)
(* incidents, action, verification, learning.  The run awaits              *)
(* runDreamCycle, so each of its three steps is one step here; the         *)
(* interleaving of the dreams inside the third is the subject of Spec.     *)
(***************************************************************************)

\* An operation issued on the memory store, with or without an embedding,
\* and whether it succeeded
StoreOp(name, embedded, ok) == [op |-> name, embedded |-> embedded, ok |-> ok]

\* A call to the reasoning layer at a stage of the run, and whether it succeeded
LlmCall(name, stage, ok) == [call |-> name, stage |-> stage, ok |-> ok]

IfConnected_always(connected, ops) == ops

\* if (memoryConnected) { ... }: the store operations a guarded block issues
IfConnected(connected, ops) == IF connected THEN ops ELSE << >>

EmbeddingFailure_propagates == "propagates"

\* try { embedding = await generateEmbedding(...) } catch { console.warn }:
\* a failed embedding is caught next to the call, in the lookup and in learning
EmbeddingFailure == "caught"

\* const finalPhase = verified ? "verified" : actionResult.success ? "resolved" : "failed"
FinalPhase_needsMemory(verified, success) ==
    IF ~memoryUpdated THEN "failed"
    ELSE IF verified THEN "verified" ELSE IF success THEN "resolved" ELSE "failed"

FinalPhase(verified, success) ==
    IF verified THEN "verified" ELSE IF success THEN "resolved" ELSE "failed"

PcAfter_learnBeforeVerify(stage) ==
    CASE stage = "act" -> "learn"
      [] stage = "learn" -> "verify"
      [] stage = "verify" -> "finish"

\* The statement order of runAgentWithProfile after the dream cycle: ACT,
\* VERIFY, LEARN, summary
PcAfter(stage) ==
    CASE stage = "act" -> "verify"
      [] stage = "verify" -> "learn"
      [] stage = "learn" -> "finish"

\* The stores a run can find: empty, or two records with embeddings
RunStores ==
    { StoreOf(0, << >>, << >>) } \cup
    { StoreOf(2, types, [k \in 1..2 |-> << 1, 0 >>]) : types \in [1..2 -> IncidentTypes] }

\* The embedding generateEmbedding returns when it succeeds
RunEmbedding == << 1, 0 >>

\* What one dream ends in: an exception, or a page that is unblocked but
\* damaged, scored after 1 s (aggregate 0.65) or after 120 s (aggregate 0.5)
RunDreamOutcomes == { 0, 1000, 120000 }

RunDreamResult(name, outcome) ==
    IF outcome = 0 THEN DreamErrorResult(name)
    ELSE LET b0 == evaluatePageHealth(One, 0, One \div 2)
             b1 == [b0 EXCEPT !.latency = scoreLatency(outcome)]
             b2 == [b1 EXCEPT !.aggregate = computeScore(b1)]
         IN  DreamScoredResult(name, b2)

\* const incidentMemory: IncidentMemory = { incidentId: incident.id, ... }
RunIncidentMemory(inc, best) ==
    [incidentId |-> inc.id, timestamp |-> ToISOString(inc.id * 1000), type |-> inc.type,
     strategyUsed |-> best.strategy, score |-> best.score]

\* The value of a run that threw instead of returning
RunThrown == [phase |-> "thrown", verified |-> FALSE, memoryUpdated |-> FALSE,
              dreamReport |-> FALSE]

InitRun ==
    /\ pc = "connect"
    /\ incident = NoIncident
    /\ diagnosis = Null
    /\ pastIncidents = << >>
    /\ strategies = << >>
    /\ dreams = << >>
    /\ report = NoReport
    /\ apiLog = << >>
    /\ config \in Configs
    /\ profile \in [ remediationAction : ProfileActions ]
    /\ actionResult = NoAction
    /\ runResult = NoRunResult
    /\ durationMs = 0
    /\ breakdown = Null
    /\ resolvedAction = NoResolved
    /\ perception = NoPerception
    /\ redis \in RunStores
    /\ calls = << >>
    /\ query = NoQuery
    /\ found = << >>
    /\ cosine = NoCosine
    /\ service = NoService
    /\ env = [GITHUB_TOKEN |-> FALSE]
    /\ memoryConnected = FALSE
    /\ memoryUpdated = FALSE
    /\ memoryOps = << >>
    /\ phaseLog = << >>
    /\ llmCalls = << >>
    /\ bugEnabled = FALSE
    /\ responses = << >>
    /\ dom = NoDom
    /\ safety = NoSafety
    /\ checks = NoChecks
    /\ llm = NoLlm

RunUnchanged ==
    UNCHANGED << dreams, apiLog, config, profile, durationMs, breakdown, perception,
                 calls, query, found, cosine, service, env, bugEnabled, responses,
                 dom, safety, checks, llm >>

\* memory.connect(), memoryConnected = true, memory.getMemoryStats(), all in
\* one try: a refused connection leaves the flag false; a failing
\* getMemoryStats is caught after the flag is set and changes nothing
RunConnect ==
    /\ pc = "connect"
    /\ \E connected \in BOOLEAN :
          /\ memoryConnected' = connected
          /\ memoryOps' = << StoreOp("connect", FALSE, connected) >>
                          \o IfConnected(connected, << StoreOp("getMemoryStats", FALSE, TRUE) >>)
    /\ pc' = "perceive"
    /\ UNCHANGED << incident, diagnosis, pastIncidents, strategies, report, actionResult,
                    runResult, resolvedAction, redis, memoryUpdated, phaseLog, llmCalls >>
    /\ RunUnchanged

\* runPerception finds every flow passing: disconnect and return "healthy".
\* The disconnect is awaited outside any try.
RunPerceiveHealthy ==
    /\ pc = "perceive"
    /\ phaseLog' = Append(phaseLog, "perception")
    /\ \E discOk \in IF memoryConnected THEN BOOLEAN ELSE { TRUE } :
          /\ memoryOps' = memoryOps \o
                 IfConnected(memoryConnected, << StoreOp("disconnect", FALSE, discOk) >>)
          /\ runResult' = IF discOk
                          THEN [phase |-> "healthy", verified |-> FALSE,
                                memoryUpdated |-> FALSE, dreamReport |-> FALSE]
                          ELSE RunThrown
    /\ pc' = "done"
    /\ UNCHANGED << incident, diagnosis, pastIncidents, strategies, report, actionResult,
                    resolvedAction, redis, memoryConnected, memoryUpdated, llmCalls >>
    /\ RunUnchanged

\* a flow failed: buildIncidentFromPerception, then memory.startThread in a
\* try of its own, whose failure is caught and changes nothing
RunPerceiveIncident ==
    /\ pc = "perceive"
    /\ \E t \in IncidentTypes : incident' = [type |-> t, id |-> 99]
    /\ phaseLog' = phaseLog \o << "perception", "incident" >>
    /\ memoryOps' = memoryOps \o
           IfConnected(memoryConnected, << StoreOp("startThread", FALSE, TRUE) >>)
    /\ pc' = "recall"
    /\ UNCHANGED << diagnosis, pastIncidents, strategies, report, actionResult, runResult,
                    resolvedAction, redis, memoryConnected, memoryUpdated, llmCalls >>
    /\ RunUnchanged

\* let pastIncidents = []; if (memoryConnected) { try { generateEmbedding in
\* its own try; pastIncidents = await memory.findSimilarIncidents(type,
\* queryEmbedding) } catch { "Memory lookup failed" } }
RunRecall ==
    /\ pc = "recall"
    /\ \E embedOk \in BOOLEAN, lookupOk \in BOOLEAN :
          LET guarded == IfConnected(memoryConnected, << "lookup" >>) # << >>
              aborted == ~embedOk /\ EmbeddingFailure # "caught"
              queryEmbedding == IF embedOk THEN RunEmbedding ELSE << >>
          IN  IF ~guarded
              THEN /\ embedOk /\ lookupOk
                   /\ UNCHANGED << pastIncidents, memoryOps, llmCalls >>
              ELSE /\ llmCalls' = Append(llmCalls, LlmCall("generateEmbedding", "recall", embedOk))
                   /\ IF aborted
                      THEN /\ lookupOk
                           /\ UNCHANGED << pastIncidents, memoryOps >>
                      ELSE /\ memoryOps' = Append(memoryOps,
                                  StoreOp("findSimilarIncidents", embedOk, lookupOk))
                           /\ pastIncidents' =
                                  IF lookupOk
                                  THEN findSimilarIncidents(redis, incident.type, queryEmbedding, 5)
                                  ELSE << >>
    /\ pc' = "diagnose"
    /\ UNCHANGED << incident, diagnosis, strategies, report, actionResult, runResult,
                    resolvedAction, redis, memoryConnected, memoryUpdated, phaseLog >>
    /\ RunUnchanged

\* runDreamCycle, step 1: const diagnosis = await diagnoseRootCause(...)
RunDiagnose ==
    /\ pc = "diagnose"
    /\ \E sug \in RunSuggestions : diagnosis' = [suggestedStrategies |-> sug]
    /\ llmCalls' = Append(llmCalls, LlmCall("diagnoseRootCause", "dream", TRUE))
    /\ phaseLog' = Append(phaseLog, "diagnosis")
    /\ pc' = "select"
    /\ UNCHANGED << incident, pastIncidents, strategies, report, actionResult, runResult,
                    resolvedAction, redis, memoryConnected, memoryUpdated, memoryOps >>
    /\ RunUnchanged

\* the LLM request of diagnoseRootCause rejects: runDreamCycle and the run throw
RunDiagnoseThrows ==
    /\ pc = "diagnose"
    /\ llmCalls' = Append(llmCalls, LlmCall("diagnoseRootCause", "dream", FALSE))
    /\ phaseLog' = Append(phaseLog, "diagnosis")
    /\ runResult' = RunThrown
    /\ pc' = "done"
    /\ UNCHANGED << incident, diagnosis, pastIncidents, strategies, report, actionResult,
                    resolvedAction, redis, memoryConnected, memoryUpdated, memoryOps >>
    /\ RunUnchanged

\* runDreamCycle, step 2: selectStrategies(context, diagnosis, pastIncidents)
RunSelect ==
    /\ pc = "select"
    /\ strategies' = selectStrategies([incident |-> incident], diagnosis, pastIncidents)
    /\ phaseLog' = Append(phaseLog, "selection")
    /\ pc' = "dream"
    /\ UNCHANGED << incident, diagnosis, pastIncidents, report, actionResult, runResult,
                    resolvedAction, redis, memoryConnected, memoryUpdated, memoryOps,
                    llmCalls >>
    /\ RunUnchanged

\* runDreamCycle, step 3: the dreams, the sort and the choice of bestStrategy;
\* then the run logs one thread step per dream, in one try
RunDreams ==
    /\ pc = "dream"
    /\ \E outcomes \in [1..Len(strategies) -> RunDreamOutcomes] :
          LET results == [i \in 1..Len(strategies) |->
                              RunDreamResult(strategies[i].name, outcomes[i])]
              ranked == SortByScore(results)
          IN  /\ report' = [dreams |-> ranked, bestStrategy |-> FindBest(ranked)]
              /\ \E logged \in { 1, Len(ranked) } :
                    memoryOps' = memoryOps \o
                        IfConnected(memoryConnected,
                            [k \in 1..logged |->
                                StoreOp("logThreadStep", FALSE, logged = Len(ranked))])
    /\ phaseLog' = Append(phaseLog, "dreams")
    /\ pc' = "ranked"
    /\ UNCHANGED << incident, diagnosis, pastIncidents, strategies, actionResult, runResult,
                    resolvedAction, redis, memoryConnected, memoryUpdated, llmCalls >>
    /\ RunUnchanged

\* if (!dreamReport.bestStrategy) { if (memoryConnected) await
\* memory.disconnect(); return { phase: "failed", incident, perception,
\* dreamReport, memoryUpdated: false } }
RunNoViableStrategy ==
    /\ pc = "ranked"
    /\ report.bestStrategy = NoStrategy
    /\ \E discOk \in IF memoryConnected THEN BOOLEAN ELSE { TRUE } :
          /\ memoryOps' = memoryOps \o
                 IfConnected(memoryConnected, << StoreOp("disconnect", FALSE, discOk) >>)
          /\ runResult' = IF discOk
                          THEN [phase |-> "failed", verified |-> FALSE,
                                memoryUpdated |-> FALSE, dreamReport |-> TRUE]
                          ELSE RunThrown
    /\ pc' = "done"
    /\ UNCHANGED << incident, diagnosis, pastIncidents, strategies, report, actionResult,
                    resolvedAction, redis, memoryConnected, memoryUpdated, phaseLog,
                    llmCalls >>
    /\ RunUnchanged

\* const actionResult = await executeRemediationAction(profile,
\* enrichedIncident, bestStrategy.strategy, agentConfig): it returns a result
\* whatever the action target does
RunAct ==
    /\ pc = "ranked"
    /\ report.bestStrategy # NoStrategy
    /\ LET resolved == resolveActionForStrategy(report.bestStrategy.strategy,
                                                profile.remediationAction, config)
       IN  /\ resolvedAction' = resolved
           /\ \E ok \in IF resolved.type = "none" THEN { TRUE } ELSE BOOLEAN :
                 actionResult' = [success |-> ok, actionType |-> resolved.type]
    /\ phaseLog' = Append(phaseLog, "action")
    /\ pc' = PcAfter("act")
    /\ UNCHANGED << incident, diagnosis, pastIncidents, strategies, report, runResult,
                    redis, memoryConnected, memoryUpdated, memoryOps, llmCalls >>
    /\ RunUnchanged

\* if (actionResult.success && profile.remediationAction.type !== "none") {
\* sleep; verified = (await runPerception(...)).healthy }
RunVerify ==
    /\ pc = "verify"
    /\ IF actionResult.success /\ profile.remediationAction.type # "none"
       THEN /\ \E verified \in BOOLEAN :
                  runResult' = [phase |-> Null, verified |-> verified]
            /\ phaseLog' = phaseLog \o << "verification", "perception" >>
       ELSE UNCHANGED << runResult, phaseLog >>
    /\ pc' = PcAfter("verify")
    /\ UNCHANGED << incident, diagnosis, pastIncidents, strategies, report, actionResult,
                    resolvedAction, redis, memoryConnected, memoryUpdated, memoryOps,
                    llmCalls >>
    /\ RunUnchanged

\* The store after memory.storeMemory(memory, embedding) has run to its end
RunStored(r, memory, embedding) ==
    [hash |-> HSet(r.hash, memory.incidentId, MemoryFields(memory)),
     embedding |-> IF Len(embedding) > 0
                   THEN SetKey(r.embedding, memory.incidentId, JSONstringify(embedding))
                   ELSE r.embedding,
     index |-> StoreIndexInsert(r.index, memory)]

\* if (memoryConnected) { try { generatePostMortem; generateEmbedding in its
\* own try; await memory.storeMemory(incidentMemory, embedding);
\* memoryUpdated = true; getMemoryStats } catch { warn }; try { disconnect }
\* catch { warn } }
RunLearn ==
    /\ pc = "learn"
    /\ IF IfConnected(memoryConnected, << "learn" >>) = << >>
       THEN UNCHANGED << redis, memoryUpdated, memoryOps, phaseLog, llmCalls >>
       ELSE \E pmOk \in BOOLEAN, embedOk \in BOOLEAN, storeOk \in BOOLEAN, discOk \in BOOLEAN :
              LET aborted == ~embedOk /\ EmbeddingFailure # "caught"
                  embedding == IF embedOk THEN RunEmbedding ELSE << >>
                  memory == RunIncidentMemory(incident, report.bestStrategy)
                  disconnect == << StoreOp("disconnect", FALSE, discOk) >>
              IN  IF ~pmOk
                  THEN /\ embedOk /\ storeOk
                       /\ llmCalls' = Append(llmCalls, LlmCall("generatePostMortem", "learn", FALSE))
                       /\ memoryOps' = memoryOps \o disconnect
                       /\ UNCHANGED << redis, memoryUpdated, phaseLog >>
                  ELSE /\ llmCalls' = llmCalls \o
                              << LlmCall("generatePostMortem", "learn", TRUE),
                                 LlmCall("generateEmbedding", "learn", embedOk) >>
                       /\ IF aborted
                          THEN /\ storeOk
                               /\ memoryOps' = memoryOps \o disconnect
                               /\ UNCHANGED << redis, memoryUpdated, phaseLog >>
                          ELSE /\ phaseLog' = Append(phaseLog, "memory_write")
                               /\ IF storeOk
                                  THEN /\ redis' = RunStored(redis, memory, embedding)
                                       /\ memoryUpdated' = TRUE
                                       /\ memoryOps' = memoryOps \o
                                              << StoreOp("storeMemory", embedOk, TRUE),
                                                 StoreOp("getMemoryStats", FALSE, TRUE) >>
                                              \o disconnect
                                  ELSE /\ memoryOps' = memoryOps \o
                                              << StoreOp("storeMemory", embedOk, FALSE) >>
                                              \o disconnect
                                       /\ UNCHANGED << redis, memoryUpdated >>
    /\ pc' = PcAfter("learn")
    /\ UNCHANGED << incident, diagnosis, pastIncidents, strategies, report, actionResult,
                    runResult, resolvedAction, memoryConnected >>
    /\ RunUnchanged

\* return { phase: finalPhase, incident, perception, dreamReport, actionResult,
\* memoryUpdated, postMortem, verified }
RunFinish ==
    /\ pc = "finish"
    /\ runResult' = [phase |-> FinalPhase(runResult.verified, actionResult.success),
                     verified |-> runResult.verified,
                     memoryUpdated |-> memoryUpdated,
                     dreamReport |-> TRUE]
    /\ pc' = "done"
    /\ UNCHANGED << incident, diagnosis, pastIncidents, strategies, report, actionResult,
                    resolvedAction, redis, memoryConnected, memoryUpdated, memoryOps,
                    phaseLog, llmCalls >>
    /\ RunUnchanged

NextRun ==
    \/ RunConnect
    \/ RunPerceiveHealthy
    \/ RunPerceiveIncident
    \/ RunRecall
    \/ RunDiagnose
    \/ RunDiagnoseThrows
    \/ RunSelect
    \/ RunDreams
    \/ RunNoViableStrategy
    \/ RunAct
    \/ RunVerify
    \/ RunLearn
    \/ RunFinish

SpecRun == InitRun /\ [][NextRun]_vars

(***************************************************************************)
(* SpecTarget: the target app's API routes, GET /api/health and GET, POST  *)
(* /api/bug, serving a sequence of requests.                               *)
(***************************************************************************)

\* The number of requests served in a run of the model
MaxRequests == 3

\* A request without a body
NoRequest == [json |-> FALSE, enabledType |-> "undefined", enabled |-> FALSE]

\* The bodies POSTed to /api/bug: { enabled: true }, { enabled: false },
\* { enabled: "yes" }, and text that is not JSON
PostBodies ==
    { [json |-> TRUE, enabledType |-> "boolean", enabled |-> TRUE],
      [json |-> TRUE, enabledType |-> "boolean", enabled |-> FALSE],
      [json |-> TRUE, enabledType |-> "string", enabled |-> FALSE],
      NoRequest }

\* One request and its answer
Exchange(method, path, request, status, body) ==
    [method |-> method, path |-> path, request |-> request, status |-> status, body |-> body]

\* GET of api/health/route.ts: NextResponse.json({ status: "healthy",
\* timestamp, uptime }, { status: 200 })
HealthResponse ==
    [status |-> 200, body |-> [status |-> "healthy", timestamp |-> "now", uptime |-> "uptime"]]

\* GET of the bug route: NextResponse.json({ bugEnabled, envValue, note })
BugGetResponse(enabled, envValue) ==
    [status |-> 200,
     body |-> [bugEnabled |-> enabled, envValue |-> envValue, note |-> "Runtime toggle"]]

\* POST of the bug route: the new state for a boolean `enabled`, 400 for
\* another body and for a body that is not JSON
BugPostResponse(request) ==
    IF request.json /\ request.enabledType = "boolean"
    THEN [status |-> 200,
          body |-> [bugEnabled |-> request.enabled,
                    message |-> IF request.enabled THEN "Bug enabled at runtime"
                                ELSE "Bug disabled at runtime"]]
    ELSE IF request.json
    THEN [status |-> 400, body |-> [error |-> "Expected enabled: true | false"]]
    ELSE [status |-> 400, body |-> [error |-> "Invalid JSON body"]]

\* let bugEnabled = process.env.NEXT_PUBLIC_ENABLE_BUG === "true"
InitTarget ==
    /\ pc = "serving"
    /\ \E value \in { "true", "false", "unset" } :
          /\ env = [NEXT_PUBLIC_ENABLE_BUG |-> value]
          /\ bugEnabled = (value = "true")
    /\ responses = << >>
    /\ RunIdle
    /\ StoreIdle
    /\ service = NoService
    /\ memoryConnected = FALSE
    /\ memoryUpdated = FALSE
    /\ memoryOps = << >>
    /\ phaseLog = << >>
    /\ llmCalls = << >>
    /\ dom = NoDom
    /\ safety = NoSafety
    /\ checks = NoChecks
    /\ llm = NoLlm

TargetUnchanged ==
    UNCHANGED << pc, runVars, storeVars, service, env, memoryConnected, memoryUpdated,
                 memoryOps, phaseLog, llmCalls, dom, safety, checks, llm >>

\* GET /api/health
GetHealth ==
    /\ Len(responses) < MaxRequests
    /\ responses' = Append(responses,
           Exchange("GET", "/api/health", NoRequest, HealthResponse.status, HealthResponse.body))
    /\ UNCHANGED bugEnabled
    /\ TargetUnchanged

\* GET /api/bug
GetBug ==
    /\ Len(responses) < MaxRequests
    /\ LET res == BugGetResponse(bugEnabled, env.NEXT_PUBLIC_ENABLE_BUG)
       IN  responses' = Append(responses,
               Exchange("GET", "/api/bug", NoRequest, res.status, res.body))
    /\ UNCHANGED bugEnabled
    /\ TargetUnchanged

\* POST /api/bug
PostBug ==
    /\ Len(responses) < MaxRequests
    /\ \E request \in PostBodies :
          LET res == BugPostResponse(request)
          IN  /\ bugEnabled' = IF res.status = 200 THEN request.enabled ELSE bugEnabled
              /\ responses' = Append(responses,
                     Exchange("POST", "/api/bug", request, res.status, res.body))
    /\ TargetUnchanged

NextTarget == GetHealth \/ GetBug \/ PostBug

SpecTarget == InitTarget /\ [][NextTarget]_vars

(***************************************************************************)
(* SpecSafety: checkSafety (scoring/evaluator.ts) on every combination of  *)
(* the danger signals of a document.                                       *)
(***************************************************************************)

\* document.body.children.length of the documents examined
BodyChildCounts == { 0, 1, 2, 3 }

\* The documents examined: the two error texts, the number of children of
\* body, the number of [role='alert'] elements, the hydration error text
Documents ==
    [ runtimeError : BOOLEAN, applicationError : BOOLEAN, bodyChildren : BodyChildCounts,
      alerts : { 0, 1 }, hydrationError : BOOLEAN ]

\* The problems the page.evaluate callback of checkSafety pushes, in its order
SafetyIssues(doc) ==
    (IF doc.runtimeError THEN << "runtime_error" >> ELSE << >>)
    \o (IF doc.applicationError THEN << "application_error" >> ELSE << >>)
    \o (IF doc.bodyChildren < 2 THEN << "page_destroyed" >> ELSE << >>)
    \o (IF doc.alerts > 0 THEN << "error_alerts" >> ELSE << >>)
    \o (IF doc.hydrationError THEN << "hydration_error" >> ELSE << >>)

SafetyScore_unfloored(issues) ==
    IF Len(issues) = 0 THEN One
    ELSE IF \E k \in 1..Len(issues) : issues[k] = "page_destroyed" THEN 0
    ELSE One - Len(issues) * ((3 * One) \div 10)

\* if (issues.length === 0) return 1.0; if (issues.includes("page_destroyed"))
\* return 0.0; return Math.max(0, 1.0 - issues.length * 0.3)
SafetyScore(issues) ==
    IF Len(issues) = 0 THEN One
    ELSE IF \E k \in 1..Len(issues) : issues[k] = "page_destroyed" THEN 0
    ELSE LET raw == One - Len(issues) * ((3 * One) \div 10)
         IN  IF raw > 0 THEN raw ELSE 0

InitSafety ==
    /\ pc = "check"
    /\ dom \in Documents
    /\ safety = NoSafety
    /\ checks = NoChecks
    /\ llm = NoLlm
    /\ RunIdle
    /\ StoreIdle
    /\ service = NoService
    /\ env = [GITHUB_TOKEN |-> FALSE]
    /\ memoryConnected = FALSE
    /\ memoryUpdated = FALSE
    /\ memoryOps = << >>
    /\ phaseLog = << >>
    /\ llmCalls = << >>
    /\ bugEnabled = FALSE
    /\ responses = << >>

SafetyUnchanged ==
    UNCHANGED << runVars, storeVars, service, env, memoryConnected, memoryUpdated,
                 memoryOps, phaseLog, llmCalls, bugEnabled, responses, dom, checks,
                 llm >>

\* checkSafety whose page.evaluate resolves
CheckSafety ==
    /\ pc = "check"
    /\ LET issues == SafetyIssues(dom)
       IN  safety' = [issues |-> issues, score |-> SafetyScore(issues), thrown |-> FALSE]
    /\ pc' = "checked"
    /\ SafetyUnchanged

\* page.evaluate rejects: catch { return 0.5 }
CheckSafetyThrows ==
    /\ pc = "check"
    /\ safety' = [issues |-> << >>, score |-> One \div 2, thrown |-> TRUE]
    /\ pc' = "checked"
    /\ SafetyUnchanged

NextSafety == CheckSafety \/ CheckSafetyThrows

SpecSafety == InitSafety /\ [][NextSafety]_vars

(***************************************************************************)
(* SpecHealth: evaluatePageHealth (scoring/evaluator.ts) check by check,   *)
(* with every answer the page and the assessment model can give, a throw   *)
(* included.                                                               *)
(***************************************************************************)

MaxHealthFlows == 2

MaxHealthElements == 2

\* What one flow test can do: page.click / isVisible / page.evaluate resolve
\* with a pass, resolve with a failure, or reject
FlowTestOutcomes == { "pass", "fail", "throws" }

\* What one expected element can do: it has no selector, or locator().count()
\* is positive, zero, or rejects
ElementOutcomes == { "exists", "missing", "throws", "no_selector" }

\* assessPageVisually: the request rejects, the content is not JSON, or the
\* content is JSON with this overallScore ("missing": the field is absent)
AssessmentOutcomes ==
    { [outcome |-> "throws", overallScore |-> 0],
      [outcome |-> "unparseable", overallScore |-> 0],
      [outcome |-> "missing", overallScore |-> 0],
      [outcome |-> "ok", overallScore |-> 0],
      [outcome |-> "ok", overallScore |-> 2 * One] }

\* The number of the four generic checks (hasHeader, hasMainContent, hasText,
\* notBlank) that hold, or -1 when page.evaluate rejects
BasicVisualOutcomes == { -1, 0, 3, 4 }

HealthDocuments ==
    { NoDom, [NoDom EXCEPT !.runtimeError = TRUE],
      [NoDom EXCEPT !.bodyChildren = 1] }

\* criticalFlows[k].priority of the profiles evaluated, k counted from 1
FlowPriority(k) == 10 - (k - 1)

RECURSIVE SumPriority(_, _)
\* the sum of the priorities of flows 1..n whose outcome satisfies keep
SumPriority(outcomes, n) ==
    IF n = 0 THEN 0
    ELSE SumPriority(outcomes, n - 1)
         + (IF outcomes[n] = "pass" THEN FlowPriority(n) ELSE 0)

RECURSIVE TotalPriority(_)
TotalPriority(n) == IF n = 0 THEN 0 ELSE TotalPriority(n - 1) + FlowPriority(n)

\* checkFlowReachability: a flow whose test throws counts as not passed
checkFlowReachability(outcomes) ==
    LET totalWeight == TotalPriority(Len(outcomes))
        passedWeight == SumPriority(outcomes, Len(outcomes))
    IN  IF totalWeight > 0 THEN (passedWeight * One) \div totalWeight ELSE 0

\* checkBasicReachability: clickable ? 1.0 : 0.0, a throw being not clickable
checkBasicReachability(outcome) == IF outcome = "pass" THEN One ELSE 0

RECURSIVE PassedHalves(_, _)
\* passed of checkProfileVisualIntegrity, in halves: 1 for an element found,
\* 0.5 for an element without selector, 0 for one missing or throwing
PassedHalves(elements, n) ==
    IF n = 0 THEN 0
    ELSE PassedHalves(elements, n - 1)
         + (CASE elements[n] = "exists" -> 2
              [] elements[n] = "no_selector" -> 1
              [] OTHER -> 0)

\* passed / total
DomScore(elements) == (PassedHalves(elements, Len(elements)) * One) \div (2 * Len(elements))

\* Math.min(1, Math.max(0, parsed.overallScore ?? 0.5)), and the 0.5 of the
\* catch around JSON.parse in assessPageVisually
AssessedScore(a) ==
    CASE a.outcome = "unparseable" -> One \div 2
      [] a.outcome = "missing" -> One \div 2
      [] OTHER -> IF a.overallScore > One THEN One
                  ELSE IF a.overallScore < 0 THEN 0 ELSE a.overallScore

\* checkBasicVisualIntegrity: passed / 4, 0.0 on a throw
checkBasicVisualIntegrity(passed) == IF passed < 0 THEN 0 ELSE (passed * One) \div 4

\* domScore * 0.6 + assessment.overallScore * 0.4
Blend(domScore, overallScore) == (domScore * 6 + overallScore * 4) \div 10

\* checkProfileVisualIntegrity with config present
checkProfileVisualIntegrity(elements, basic, a) ==
    IF Len(elements) = 0 THEN checkBasicVisualIntegrity(basic)
    ELSE IF a.outcome = "throws" THEN DomScore(elements)
    ELSE Blend(DomScore(elements), AssessedScore(a))

InitHealth ==
    /\ pc = "reachability"
    /\ \E profiled \in BOOLEAN, nf \in 0..MaxHealthFlows, ne \in 0..MaxHealthElements :
          \E fl \in [1..nf -> FlowTestOutcomes], el \in [1..ne -> ElementOutcomes],
             a \in AssessmentOutcomes, basic \in BasicVisualOutcomes,
             s \in { "ok", "throws" } :
             /\ profiled \/ (nf = 1 /\ ne = 0)
             /\ (ne > 0 /\ profiled) \/ a.outcome = "throws"
             /\ (ne = 0) \/ basic = -1
             /\ checks = [profiled |-> profiled, flows |-> fl, elements |-> el,
                          basic |-> basic, assessment |-> a, safety |-> s]
    /\ dom \in (IF checks.safety = "throws" THEN { NoDom } ELSE HealthDocuments)
    /\ safety = NoSafety
    /\ llm = NoLlm
    /\ RunIdle
    /\ StoreIdle
    /\ service = NoService
    /\ env = [GITHUB_TOKEN |-> FALSE]
    /\ memoryConnected = FALSE
    /\ memoryUpdated = FALSE
    /\ memoryOps = << >>
    /\ phaseLog = << >>
    /\ llmCalls = << >>
    /\ bugEnabled = FALSE
    /\ responses = << >>

HealthUnchanged ==
    UNCHANGED << incident, diagnosis, pastIncidents, strategies, dreams, report, apiLog,
                 config, profile, actionResult, runResult, durationMs, resolvedAction,
                 storeVars, service, env, memoryConnected, memoryUpdated, memoryOps,
                 phaseLog, llmCalls, bugEnabled, responses, dom, checks, llm >>

\* const reachability = profile ? await checkFlowReachability(...)
\*                              : await checkBasicReachability(...)
HealthReachability ==
    /\ pc = "reachability"
    /\ breakdown' = [reachability |-> IF checks.profiled
                                      THEN checkFlowReachability(checks.flows)
                                      ELSE checkBasicReachability(checks.flows[1]),
                     visualIntegrity |-> 0, latency |-> One, safety |-> 0,
                     aggregate |-> 0]
    /\ pc' = "visual"
    /\ UNCHANGED safety
    /\ HealthUnchanged

\* const visualIntegrity = profile ? await checkProfileVisualIntegrity(...)
\*                                 : await checkBasicVisualIntegrity(...)
HealthVisualIntegrity ==
    /\ pc = "visual"
    /\ breakdown' = [breakdown EXCEPT !.visualIntegrity =
                        IF checks.profiled
                        THEN checkProfileVisualIntegrity(checks.elements, checks.basic,
                                                         checks.assessment)
                        ELSE checkBasicVisualIntegrity(checks.basic)]
    /\ pc' = "safety"
    /\ UNCHANGED safety
    /\ HealthUnchanged

\* const safety = await checkSafety(page, details)
HealthSafety ==
    /\ pc = "safety"
    /\ safety' = IF checks.safety = "throws"
                 THEN [issues |-> << >>, score |-> One \div 2, thrown |-> TRUE]
                 ELSE [issues |-> SafetyIssues(dom), score |-> SafetyScore(SafetyIssues(dom)),
                       thrown |-> FALSE]
    /\ breakdown' = [breakdown EXCEPT !.safety = safety'.score]
    /\ pc' = "aggregate"
    /\ HealthUnchanged

\* breakdown.aggregate = computeScore(breakdown); return breakdown
HealthAggregate ==
    /\ pc = "aggregate"
    /\ breakdown' = evaluatePageHealth(breakdown.reachability, breakdown.visualIntegrity,
                                       breakdown.safety)
    /\ pc' = "evaluated"
    /\ UNCHANGED safety
    /\ HealthUnchanged

NextHealth == HealthReachability \/ HealthVisualIntegrity \/ HealthSafety \/ HealthAggregate

SpecHealth == InitHealth /\ [][NextHealth]_vars

(***************************************************************************)
(* SpecDiagnose: diagnoseRootCause (reasoning/llm.ts) on every kind of     *)
(* answer the chat completion can give, then selectStrategies on the       *)
(* diagnosis returned.  Confidences are in hundredths.                     *)
(***************************************************************************)

ConfidenceOne == 100

\* A JSON value found under "confidence": absent (or null), a number, a
\* string that reads as a number, a string that does not
ConfidenceValues ==
    { [type |-> "missing", value |-> 0] }
    \cup { [type |-> "number", value |-> n] : n \in { -50, 0, 70, 100, 150 } }
    \cup { [type |-> "numeric_string", value |-> 70],
           [type |-> "string", value |-> 0] }

\* The value found under "suggestedStrategies": absent, or an array of names
SuggestedValues ==
    { [type |-> "missing", value |-> << >>] }
    \cup { [type |-> "array", value |-> sug] : sug \in SeqsUpTo(SuggestedNames, MaxSuggested) }

\* What openai.chat.completions.create can do and what
\* response.choices[0].message.content can hold
LlmAnswers ==
    { [outcome |-> "rejects", content |-> [kind |-> "none"]],
      [outcome |-> "resolves", content |-> [kind |-> "not_json"]],
      [outcome |-> "resolves", content |-> [kind |-> "null_content"]],
      [outcome |-> "resolves", content |-> [kind |-> "json_null"]] }
    \cup { [outcome |-> "resolves",
            content |-> [kind |-> "object", confidence |-> c, suggestedStrategies |-> s]] :
           c \in ConfidenceValues, s \in SuggestedValues }

NaN == [nan |-> TRUE, value |-> 0]

Num(n) == [nan |-> FALSE, value |-> n]

\* ToNumber of the argument of Math.max: a number and a numeric string give
\* their value, any other string gives NaN
ToNumber(v) == IF v.type = "string" THEN NaN ELSE Num(v.value)

\* Math.max(a, x) and Math.min(a, x) for a number a: NaN when x is NaN
MathMax(a, x) == IF x.nan THEN NaN ELSE Num(IF x.value > a THEN x.value ELSE a)

MathMin(a, x) == IF x.nan THEN NaN ELSE Num(IF x.value < a THEN x.value ELSE a)

\* Math.min(1, Math.max(0, parsed.confidence ?? 0.5))
Clamp(v) ==
    IF v.type = "missing" THEN Num(ConfidenceOne \div 2)
    ELSE MathMin(ConfidenceOne, MathMax(0, ToNumber(v)))

\* The diagnosis of the catch around JSON.parse
FallbackDiagnosis ==
    [rootCause |-> "Failed to parse LLM diagnosis", confidence |-> Num(30),
     suggestedStrategies |-> << "rollback_simulation", "css_patch_targeted" >>]

\* The try block of diagnoseRootCause: JSON.parse(content ?? "{}") and the
\* defaults; JSON.parse throws on text that is not JSON, and reading a
\* property of the parsed value null throws inside the same try
ParseDiagnosis(content) ==
    CASE content.kind = "not_json" -> FallbackDiagnosis
      [] content.kind = "json_null" -> FallbackDiagnosis
      [] content.kind = "null_content" ->
            [rootCause |-> "Unknown", confidence |-> Num(ConfidenceOne \div 2),
             suggestedStrategies |-> << "rollback_simulation" >>]
      [] OTHER ->
            [rootCause |-> "parsed", confidence |-> Clamp(content.confidence),
             suggestedStrategies |->
                 IF content.suggestedStrategies.type = "missing"
                 THEN << "rollback_simulation" >>
                 ELSE content.suggestedStrategies.value]

NoDiagnosis == [rootCause |-> Null, confidence |-> Num(0), suggestedStrategies |-> << >>]

InitDiagnose ==
    /\ pc = "diagnose"
    /\ llm \in LlmAnswers
    /\ \E t \in IncidentTypes : incident = [type |-> t]
    /\ diagnosis = NoDiagnosis
    /\ pastIncidents = << >>
    /\ strategies = << >>
    /\ dreams = << >>
    /\ report = NoReport
    /\ apiLog = << >>
    /\ config = Null
    /\ profile = Null
    /\ actionResult = NoAction
    /\ runResult = NoRunResult
    /\ durationMs = 0
    /\ breakdown = Null
    /\ resolvedAction = NoResolved
    /\ StoreIdle
    /\ service = NoService
    /\ env = [GITHUB_TOKEN |-> FALSE]
    /\ memoryConnected = FALSE
    /\ memoryUpdated = FALSE
    /\ memoryOps = << >>
    /\ phaseLog = << >>
    /\ llmCalls = << >>
    /\ bugEnabled = FALSE
    /\ responses = << >>
    /\ dom = NoDom
    /\ safety = NoSafety
    /\ checks = NoChecks

DiagnoseUnchanged ==
    UNCHANGED << incident, pastIncidents, dreams, report, apiLog, config, profile,
                 actionResult, runResult, durationMs, breakdown, resolvedAction,
                 storeVars, service, env, memoryConnected, memoryUpdated, memoryOps,
                 phaseLog, llmCalls, bugEnabled, responses, dom, safety, checks, llm >>

\* await openai.chat.completions.create(...) rejects: it is outside the try,
\* so diagnoseRootCause rejects
DiagnoseRejects ==
    /\ pc = "diagnose"
    /\ llm.outcome = "rejects"
    /\ pc' = "thrown"
    /\ UNCHANGED << diagnosis, strategies >>
    /\ DiagnoseUnchanged

\* the request resolves: the try/catch around JSON.parse builds the result
DiagnoseParse ==
    /\ pc = "diagnose"
    /\ llm.outcome = "resolves"
    /\ diagnosis' = ParseDiagnosis(llm.content)
    /\ pc' = "diagnosed"
    /\ UNCHANGED strategies
    /\ DiagnoseUnchanged

\* runDreamCycle: const strategies = selectStrategies(context, diagnosis, pastIncidents)
DiagnoseSelect ==
    /\ pc = "diagnosed"
    /\ strategies' = selectStrategies([incident |-> incident], diagnosis, pastIncidents)
    /\ pc' = "selected"
    /\ UNCHANGED diagnosis
    /\ DiagnoseUnchanged

NextDiagnose == DiagnoseRejects \/ DiagnoseParse \/ DiagnoseSelect

SpecDiagnose == InitDiagnose /\ [][NextDiagnose]_vars

(***************************************************************************)
(* SpecReach: createGenericProfile (types/site-profile.ts) for the flows   *)
(* of a command line, then checkFlowReachability on a page where each flow *)
(* test passes or fails.                                                   *)
(***************************************************************************)

MaxGenericFlows == 12

InitReach ==
    /\ pc = "create"
    /\ \E n \in 0..MaxGenericFlows :
          \E fl \in [1..n -> { "pass", "fail" }] :
             checks = [profiled |-> TRUE, flows |-> fl, elements |-> << >>, basic |-> -1,
                       assessment |-> [outcome |-> "throws", overallScore |-> 0],
                       safety |-> "ok"]
    /\ dom = NoDom
    /\ safety = NoSafety
    /\ llm = NoLlm
    /\ RunIdle
    /\ StoreIdle
    /\ service = NoService
    /\ env = [GITHUB_TOKEN |-> FALSE]
    /\ memoryConnected = FALSE
    /\ memoryUpdated = FALSE
    /\ memoryOps = << >>
    /\ phaseLog = << >>
    /\ llmCalls = << >>
    /\ bugEnabled = FALSE
    /\ responses = << >>

ReachUnchanged ==
    UNCHANGED << incident, diagnosis, pastIncidents, strategies, dreams, report, apiLog,
                 config, actionResult, runResult, durationMs, resolvedAction,
                 storeVars, service, env, memoryConnected, memoryUpdated, memoryOps,
                 phaseLog, llmCalls, bugEnabled, responses, dom, safety, checks, llm >>

\* createGenericProfile(url, flows): criticalFlows[i].priority = 10 - i
CreateGenericProfile ==
    /\ pc = "create"
    /\ profile' = [criticalFlows |-> [k \in 1..Len(checks.flows) |->
                                         [priority |-> FlowPriority(k)]],
                   remediationAction |-> [type |-> "none"]]
    /\ pc' = "reachability"
    /\ UNCHANGED breakdown
    /\ ReachUnchanged

\* checkFlowReachability(page, profile, details)
ReachabilityOfProfile ==
    /\ pc = "reachability"
    /\ breakdown' = [reachability |-> checkFlowReachability(checks.flows),
                     totalWeight |-> TotalPriority(Len(profile.criticalFlows)),
                     passedWeight |-> SumPriority(checks.flows, Len(checks.flows))]
    /\ pc' = "checked"
    /\ UNCHANGED profile
    /\ ReachUnchanged

NextReach == CreateGenericProfile \/ ReachabilityOfProfile

SpecReach == InitReach /\ [][NextReach]_vars

(***************************************************************************)
(* SpecNovel: a dream cycle whose diagnosis proposes a strategy name that  *)
(* the switch of executeDream (actions/vercel.ts) does not know.  Each     *)
(* dream records the operations it issues on the page of its session.      *)
(***************************************************************************)

\* A name the language model proposed that no case of the switch matches
NovelName == "restart_service"

NovelSuggestions ==
    { << NovelName >>, << NovelName, "css_patch_targeted" >>, << "cache_clear" >> }

StrategyMutation_patchesUnknown(name) ==
    CASE name = "rollback_simulation" -> "goto_previous_deployment"
      [] name = "dom_removal" -> "removeBlockingElement"
      [] name = "style_override" -> "addStyleTag"
      [] name = "js_injection" -> "evaluate_neutralize"
      [] name = "cache_clear" -> "reload"
      [] OTHER -> "applyCssPatch"

\* switch (strategy.name): the operation the matching case issues on the
\* page; the default case sets strategyDetail and issues none
StrategyMutation(name) ==
    CASE name = "rollback_simulation" -> "goto_previous_deployment"
      [] name = "css_patch_targeted" -> "applyCssPatch"
      [] name = "dom_removal" -> "removeBlockingElement"
      [] name = "style_override" -> "addStyleTag"
      [] name = "js_injection" -> "evaluate_neutralize"
      [] name = "cache_clear" -> "reload"
      [] OTHER -> "none"

NovelLaunched == [pc |-> "goto", ops |-> << >>, result |-> NoStrategy]

InitNovel ==
    /\ pc = "select"
    /\ \E t \in IncidentTypes : incident = [type |-> t]
    /\ \E sug \in NovelSuggestions : diagnosis = [suggestedStrategies |-> sug]
    /\ pastIncidents = << >>
    /\ strategies = << >>
    /\ dreams = << >>
    /\ report = NoReport
    /\ apiLog = << >>
    /\ config = Null
    /\ profile = Null
    /\ actionResult = NoAction
    /\ runResult = NoRunResult
    /\ durationMs = 0
    /\ breakdown = Null
    /\ resolvedAction = NoResolved
    /\ StoreIdle
    /\ AuxIdle

NovelUnchanged ==
    UNCHANGED << incident, diagnosis, pastIncidents, apiLog, config, profile, actionResult,
                 runResult, durationMs, breakdown, resolvedAction, storeVars, auxVars >>

\* const strategies = selectStrategies(...); strategies.map(executeDream)
NovelSelect ==
    /\ pc = "select"
    /\ strategies' = selectStrategies([incident |-> incident], diagnosis, pastIncidents)
    /\ dreams' = [i \in 1..Len(strategies') |-> NovelLaunched]
    /\ pc' = "dreaming"
    /\ UNCHANGED report
    /\ NovelUnchanged

\* await stagehand.init(); await page.goto(context.targetUrl): a throw of
\* either ends in the catch of executeDream
NovelGoto(i) ==
    /\ pc = "dreaming"
    /\ dreams[i].pc = "goto"
    /\ \/ dreams' = [dreams EXCEPT ![i].pc = "apply", ![i].ops = << "goto" >>]
       \/ dreams' = [dreams EXCEPT ![i].pc = "settled",
                                   ![i].result = DreamErrorResult(strategies[i].name)]
    /\ UNCHANGED << pc, strategies, report >>
    /\ NovelUnchanged

\* the switch on strategy.name
NovelApply(i) ==
    /\ pc = "dreaming"
    /\ dreams[i].pc = "apply"
    /\ LET m == StrategyMutation(strategies[i].name)
       IN  dreams' = [dreams EXCEPT ![i].pc = "evaluate",
                                    ![i].ops = IF m = "none" THEN @ ELSE Append(@, m)]
    /\ UNCHANGED << pc, strategies, report >>
    /\ NovelUnchanged

\* evaluatePageHealth, the latency back-fill, computeScore and the return
NovelEvaluate(i) ==
    /\ pc = "dreaming"
    /\ dreams[i].pc = "evaluate"
    /\ \E page \in DreamPages, elapsed \in DreamDurations :
          LET b0 == evaluatePageHealth(page.r, page.v, page.s)
              b1 == [b0 EXCEPT !.latency = scoreLatency(elapsed)]
              b2 == [b1 EXCEPT !.aggregate = computeScore(b1)]
          IN  dreams' = [dreams EXCEPT
                            ![i].pc = "settled",
                            ![i].ops = Append(@, "evaluatePageHealth"),
                            ![i].result = DreamScoredResult(strategies[i].name, b2)]
    /\ UNCHANGED << pc, strategies, report >>
    /\ NovelUnchanged

\* results.sort((a, b) => b.score - a.score); bestStrategy = results.find(...)
NovelRank ==
    /\ pc = "dreaming"
    /\ \A i \in 1..Len(dreams) : dreams[i].pc = "settled"
    /\ LET results == SortByScore([i \in 1..Len(dreams) |-> dreams[i].result])
       IN  report' = [dreams |-> results, bestStrategy |-> FindBest(results)]
    /\ pc' = "ranked"
    /\ UNCHANGED << strategies, dreams >>
    /\ NovelUnchanged

NextNovel ==
    \/ NovelSelect
    \/ \E i \in 1..Len(dreams) : NovelGoto(i)
    \/ \E i \in 1..Len(dreams) : NovelApply(i)
    \/ \E i \in 1..Len(dreams) : NovelEvaluate(i)
    \/ NovelRank

SpecNovel == InitNovel /\ [][NextNovel]_vars

(***************************************************************************)
(* Properties of scoring (checked under SpecScore)                         *)
(***************************************************************************)

\* C8: computeScore returns 0.4*reachability + 0.25*visualIntegrity +
\* 0.2*safety + 0.15*latency; for sub-scores in [0,1] the aggregate is in
\* [0,1], all-ones gives 1.0 within 1e-3 and all-zeros gives exactly 0.
C8_ComputeScoreWeighted ==
    pc \in { "evaluated", "scored" } =>
        LET r == breakdown.reachability
            v == breakdown.visualIntegrity
            s == breakdown.safety
            l == breakdown.latency
            a == breakdown.aggregate
        IN  /\ a = 40 * r + 25 * v + 20 * s + 15 * l
            /\ 0 <= a /\ a <= AggOne
            /\ (r = One /\ v = One /\ s = One /\ l = One) =>
                  /\ 1000 * (a - AggOne) < AggOne
                  /\ 1000 * (AggOne - a) < AggOne
            /\ (r = 0 /\ v = 0 /\ s = 0 /\ l = 0) => a = 0

\* A recomputed aggregate of mixed sub-scores, with a back-filled latency
\* strictly between 0 and 1.
C8_Witness ==
    /\ pc = "scored"
    /\ breakdown.reachability = One
    /\ breakdown.safety = 0
    /\ breakdown.latency > 0 /\ breakdown.latency < One
    /\ breakdown.aggregate > 0 /\ breakdown.aggregate < AggOne

\* C9: scoreLatency(t) is 1.0 for t <= 5000 ms, 0.0 for t >= 120000 ms, and
\* in between equals 1 - (t - 5000)/115000, strictly between 0 and 1 and
\* strictly decreasing in t.
C9_LatencyCurve ==
    pc \in { "backfilled", "scored" } =>
        LET t == durationMs
            l == breakdown.latency
        IN  /\ t <= 5000 => l = One
            /\ t >= 120000 => l = 0
            /\ (5000 < t /\ t < 120000) =>
                  /\ 115 * (One - l) = (One \div 1000) * (t - 5000)
                  /\ 0 < l /\ l < One
                  /\ \A t2 \in Durations :
                        (t < t2 /\ t2 < 120000) => scoreLatency(t2) < l

\* The latency of a 60 s dream has been back-filled.
C9_Witness ==
    /\ pc = "backfilled"
    /\ durationMs = 60000
    /\ breakdown.latency > 0 /\ breakdown.latency < One

(***************************************************************************)
(* Properties of selectStrategies (checked under SpecSelect)               *)
(***************************************************************************)

IsPastWin(m) == 10 * m.score > 8 * AggOne

MinPriority(ss) ==
    CHOOSE p \in { ss[i].priority : i \in 1..Len(ss) } :
        \A i \in 1..Len(ss) : p <= ss[i].priority

\* n is a candidate placed in the list at a non-top priority, before any boost
NonTopCandidate(n) ==
    LET cs == CandidateStrategies([incident |-> incident], diagnosis)
    IN  /\ HasStrategy(cs, n)
        /\ cs[FindStrategy(cs, n)].priority > MinPriority(cs)

\* n has priority strictly lower than every other entry and is first
BoostedToTop(n) ==
    /\ strategies[1].name = n
    /\ \A j \in 2..Len(strategies) : strategies[1].priority < strategies[j].priority

\* C10 as stated: any pastIncidents entry with score > 0.8 naming a non-top
\* candidate has that candidate boosted above every other and listed first.
C10_AnyPastWinBoosted ==
    pc = "selected" =>
        \A k \in 1..Len(pastIncidents) :
            (IsPastWin(pastIncidents[k]) /\ NonTopCandidate(pastIncidents[k].strategyUsed))
                => BoostedToTop(pastIncidents[k].strategyUsed)

\* The index of the first pastIncidents entry with score > 0.8, 0 if none
FirstPastWin ==
    IF \E k \in 1..Len(pastIncidents) : IsPastWin(pastIncidents[k])
    THEN CHOOSE k \in 1..Len(pastIncidents) :
            /\ IsPastWin(pastIncidents[k])
            /\ \A j \in 1..(k - 1) : ~IsPastWin(pastIncidents[j])
    ELSE 0

\* C10 (amended): when the FIRST pastIncidents entry with score > 0.8 names a
\* candidate placed at a non-top priority, that candidate is given a priority
\* strictly lower than every other candidate and is first in the returned list.
C10_FirstPastWinBoosted ==
    (/\ pc = "selected"
     /\ FirstPastWin # 0
     /\ NonTopCandidate(pastIncidents[FirstPastWin].strategyUsed))
        => BoostedToTop(pastIncidents[FirstPastWin].strategyUsed)

\* dom_removal, a priority-4 fallback behind an LLM suggestion, was boosted to
\* the front by the second entry of pastIncidents, the first one with score > 0.8.
C10_Witness ==
    /\ pc = "selected"
    /\ Len(pastIncidents) = 2
    /\ FirstPastWin = 2
    /\ pastIncidents[2].strategyUsed = "dom_removal"
    /\ incident.type = "visual_occlusion"
    /\ diagnosis.suggestedStrategies = << "cache_clear" >>
    /\ strategies[1] = [name |-> "dom_removal", priority |-> 0]
    /\ Len(strategies) = 4

\* pastIncidents holds at least two entries with score > 0.8
SeveralPastWins ==
    Cardinality({ k \in 1..Len(pastIncidents) : IsPastWin(pastIncidents[k]) }) >= 2

\* k is the one entry of pastIncidents with the highest score
HighestPastWin(k) ==
    /\ IsPastWin(pastIncidents[k])
    /\ \A j \in 1..Len(pastIncidents) :
          j # k => pastIncidents[j].score < pastIncidents[k].score

\* C11 as stated: with several entries of score > 0.8, the candidate boosted
\* is the strategyUsed of the highest-scoring entry, whatever its position.
C11_HighestPastWinBoosted ==
    (pc = "selected" /\ SeveralPastWins) =>
        \A k \in 1..Len(pastIncidents) :
            (HighestPastWin(k) /\ NonTopCandidate(pastIncidents[k].strategyUsed))
                => BoostedToTop(pastIncidents[k].strategyUsed)

\* C11 (amended): with several entries of score > 0.8, the only strategy that
\* selectStrategies boosts (priority 0) is the strategyUsed of the first such
\* entry in list order, whatever the scores of the later entries; if that name
\* is a candidate it is boosted, and if it is not, nothing is boosted.
C11_OnlyFirstPastWinBoosted ==
    (pc = "selected" /\ SeveralPastWins) =>
        \A i \in 1..Len(strategies) :
            strategies[i].priority = 0
                <=> strategies[i].name = pastIncidents[FirstPastWin].strategyUsed

\* The first entry (0.9) names css_patch_targeted, the second (0.95) names
\* dom_removal; both are candidates; css_patch_targeted is boosted and
\* dom_removal keeps its fallback priority.
C11_Witness ==
    /\ pc = "selected"
    /\ Len(pastIncidents) = 2
    /\ IsPastWin(pastIncidents[1])
    /\ pastIncidents[1].score < pastIncidents[2].score
    /\ pastIncidents[1].strategyUsed = "css_patch_targeted"
    /\ pastIncidents[2].strategyUsed = "dom_removal"
    /\ incident.type = "visual_occlusion"
    /\ strategies[1] = [name |-> "css_patch_targeted", priority |-> 0]
    /\ \E i \in 2..Len(strategies) : strategies[i] = [name |-> "dom_removal", priority |-> 4]


\* The names the diagnosis suggested, rollback_simulation left out
SuggestedOthers ==
    { diagnosis.suggestedStrategies[k] : k \in 1..Len(diagnosis.suggestedStrategies) }
        \ { "rollback_simulation" }

\* C12: the list selectStrategies returns contains rollback_simulation and is
\* sorted ascending by priority; for a visual_occlusion incident it also
\* contains css_patch_targeted and dom_removal; every LLM-suggested strategy
\* other than rollback_simulation is present, with a priority value lower than
\* that of every entry that was not suggested (the deterministic fallbacks and
\* rollback_simulation) unless that entry carries the learning boost.
C12_SelectedListShape ==
    pc = "selected" =>
        /\ HasStrategy(strategies, "rollback_simulation")
        /\ \A i, j \in 1..Len(strategies) :
              i < j => strategies[i].priority <= strategies[j].priority
        /\ incident.type = "visual_occlusion" =>
              /\ HasStrategy(strategies, "css_patch_targeted")
              /\ HasStrategy(strategies, "dom_removal")
        /\ \A n \in SuggestedOthers :
              /\ HasStrategy(strategies, n)
              /\ \A j \in 1..Len(strategies) :
                    strategies[j].name \notin SuggestedOthers =>
                        \/ strategies[FindStrategy(strategies, n)].priority
                              < strategies[j].priority
                        \/ strategies[j].priority = 0

\* A visual_occlusion incident with the suggestions cache_clear and
\* rollback_simulation and a past win for dom_removal: the list is dom_removal
\* (boosted), cache_clear, css_patch_targeted, rollback_simulation.
C12_Witness ==
    /\ pc = "selected"
    /\ incident.type = "visual_occlusion"
    /\ diagnosis.suggestedStrategies = << "cache_clear", "rollback_simulation" >>
    /\ strategies = << [name |-> "dom_removal", priority |-> 0],
                       [name |-> "cache_clear", priority |-> 2],
                       [name |-> "css_patch_targeted", priority |-> 3],
                       [name |-> "rollback_simulation", priority |-> 5] >>

(***************************************************************************)
(* Properties of the dream cycle and the run (checked under Spec)          *)
(***************************************************************************)

\* runDreamCycle has ranked and returned its report
Ranked == pc \in { "ranked", "acted" }

\* The entries of the report that carry the name of strategy i
ReportEntries(i) ==
    { k \in 1..Len(report.dreams) : report.dreams[k].strategy = strategies[i].name }

IsFailureResult(r) ==
    /\ r.score = 0
    /\ r.success = FALSE
    /\ r.sideEffects \in { << "dream_error" >>, << "dream_crashed" >> }

\* C1: the report holds exactly one DreamResult per selected strategy; a
\* strategy that threw (inside the session, or whose dream task was rejected)
\* appears with score 0, success=false and a diagnostic side-effect tag, and
\* the results of the other strategies are present unchanged.
C1_OneResultPerStrategy ==
    Ranked =>
        /\ Len(report.dreams) = Len(strategies)
        /\ \A i \in 1..Len(strategies) :
              /\ Cardinality(ReportEntries(i)) = 1
              /\ \A k \in ReportEntries(i) :
                    /\ dreams[i].path \in { "caught", "rejected" }
                          => IsFailureResult(report.dreams[k])
                    /\ dreams[i].path = "scored"
                          => report.dreams[k] = dreams[i].result

\* A report of three dreams: one rejected, one that threw inside its session,
\* and one that completed with a qualifying score.
C1_Witness ==
    /\ Ranked
    /\ Len(strategies) = 3
    /\ \E i, j, m \in 1..Len(strategies) :
          /\ dreams[i].path = "rejected"
          /\ dreams[j].path = "caught"
          /\ dreams[m].path = "scored" /\ Qualifies(dreams[m].result)

\* The positions of the report whose result has success=true and score > 0.5
QualifyingEntries ==
    { k \in 1..Len(report.dreams) :
        report.dreams[k].success /\ 2 * report.dreams[k].score > AggOne }

\* C2: if at least one DreamResult has success=true and score > 0.5,
\* bestStrategy is a result with the maximum score among those (a
\* higher-scoring result with success=false is passed over, a score of
\* exactly 0.5 does not qualify); if none qualifies, bestStrategy is null.
C2_BestIsMaxQualifying ==
    Ranked =>
        IF QualifyingEntries # { }
        THEN /\ \E k \in QualifyingEntries : report.bestStrategy = report.dreams[k]
             /\ \A k \in QualifyingEntries :
                   report.bestStrategy.score >= report.dreams[k].score
        ELSE report.bestStrategy = NoStrategy

\* The top-ranked result scored higher than the winner but has success=false,
\* and a result with success=true and score exactly 0.5 was not chosen.
C2_Witness ==
    /\ Ranked
    /\ report.bestStrategy # NoStrategy
    /\ ~report.dreams[1].success
    /\ report.dreams[1].score > report.bestStrategy.score
    /\ \E k \in 1..Len(report.dreams) :
          /\ report.dreams[k].success
          /\ 2 * report.dreams[k].score = AggOne

\* C3: every selected strategy's dream is launched before the engine waits on
\* any of them, and ranking happens only after every dream has settled; a
\* failed dream neither cancels a sibling nor lets ranking start early.
C3_SettleAllBeforeRanking ==
    /\ (pc = "dreaming" \/ Ranked) => Len(dreams) = Len(strategies)
    /\ Ranked =>
          \A i \in 1..Len(dreams) :
              /\ dreams[i].promise # "pending"
              /\ dreams[i].pc = "settled"
              /\ dreams[i].path # "running"

\* Ranking happened after one dream was rejected at launch while a sibling ran
\* its whole session and returned a scored result.
C3_Witness ==
    /\ Ranked
    /\ \E i, j \in 1..Len(dreams) :
          /\ dreams[i].promise = "rejected"
          /\ dreams[j].path = "scored"
          /\ dreams[j].closeCalls = 1

\* C4 as stated: every session a dream opens is torn down exactly once before
\* the dream's result is delivered, so no dream session is open when
\* runDreamCycle ranks the results.
C4_NoSessionOpenAtRanking ==
    /\ \A i \in 1..Len(dreams) :
          dreams[i].promise = "fulfilled" =>
              /\ dreams[i].closeCalls = 1
              /\ dreams[i].session \in { "none", "closed" }
    /\ Ranked =>
          \A i \in 1..Len(dreams) : dreams[i].session \in { "none", "closed" }

\* C4 (amended): a dream calls close exactly once on every exit path of its
\* session, the call has settled before the result is delivered to the join,
\* and its failure leaves the result as the try or catch block produced it;
\* at ranking no close is outstanding and a session is still open only if its
\* close call failed.
C4_CloseOnceBeforeSettle ==
    /\ \A i \in 1..Len(dreams) :
          /\ dreams[i].closeCalls <= 1
          /\ dreams[i].promise = "pending" => dreams[i].closeCalls = 0
          /\ dreams[i].promise = "fulfilled" =>
                /\ dreams[i].closeCalls = 1
                /\ dreams[i].session \in { "none", "closed", "leaked" }
                /\ dreams[i].path = "scored" => ~IsFailureResult(dreams[i].result)
                /\ dreams[i].path = "caught" => IsFailureResult(dreams[i].result)
          /\ dreams[i].promise = "rejected" =>
                dreams[i].closeCalls = 0 /\ dreams[i].session = "none"
    /\ Ranked =>
          \A i \in 1..Len(dreams) : dreams[i].session \in { "none", "closed", "leaked" }

\* At ranking: one dream closed its session after scoring, one after an
\* exception, and one had its close call fail after scoring.
C4_Witness ==
    /\ Ranked
    /\ \E i, j, m \in 1..Len(dreams) :
          /\ dreams[i].path = "scored" /\ dreams[i].session = "closed"
          /\ dreams[j].path = "caught" /\ dreams[j].session = "closed"
          /\ dreams[m].path = "scored" /\ dreams[m].session = "leaked"
                /\ Qualifies(dreams[m].result)

\* The priority selectStrategies gave to the strategy of a result
PriorityOf(r) == strategies[FindStrategy(strategies, r.strategy)].priority

\* C5: the ranked list is sorted descending by score, and any two results
\* with equal score appear in the order of their strategies' priority (lower
\* priority value first), whatever the order in which the dreams finished.
C5_RankedByScoreThenPriority ==
    Ranked =>
        \A k, m \in 1..Len(report.dreams) :
            k < m =>
                /\ report.dreams[k].score >= report.dreams[m].score
                /\ report.dreams[k].score = report.dreams[m].score
                      => PriorityOf(report.dreams[k]) <= PriorityOf(report.dreams[m])

\* Three results with the same qualifying score, ranked in priority order.
C5_Witness ==
    /\ Ranked
    /\ Len(report.dreams) = 3
    /\ report.dreams[1].score = report.dreams[3].score
    /\ Qualifies(report.dreams[1])
    /\ PriorityOf(report.dreams[1]) < PriorityOf(report.dreams[2])
    /\ PriorityOf(report.dreams[2]) < PriorityOf(report.dreams[3])

HasMutatingCall == \E k \in 1..Len(apiLog) : apiLog[k] \in MutatingCalls

\* C6: a production-mutating call happens only after runDreamCycle has
\* returned a non-null bestStrategy; during the dream phase the only
\* deployment-API call is the read-only listing of deployments; and when
\* bestStrategy is null no production action is executed at all.
C6_ProductionOnlyAfterWinner ==
    /\ HasMutatingCall =>
          /\ pc \in { "acted", "done" }
          /\ report.bestStrategy # NoStrategy
    /\ pc \in { "select", "dreaming", "ranked" } =>
          \A k \in 1..Len(apiLog) : apiLog[k] = "list_deployments"
    /\ report.bestStrategy = NoStrategy =>
          /\ actionResult = NoAction
          /\ ~HasMutatingCall

\* The rollback dream listed the deployments, won, and the real rollback was
\* triggered afterwards.
C6_Witness ==
    /\ pc = "acted"
    /\ report.bestStrategy.strategy = "rollback_simulation"
    /\ apiLog = << "list_deployments", "vercel_rollback" >>

\* C7: for every DreamResult in the report, success=true implies that the
\* reachability sub-score computed for that dream was strictly greater than
\* 0.5; results of a thrown or rejected dream have success=false.
C7_SuccessImpliesReachability ==
    Ranked =>
        \A i \in 1..Len(strategies) :
            \A k \in ReportEntries(i) :
                /\ report.dreams[k].success =>
                      /\ dreams[i].path = "scored"
                      /\ 2 * dreams[i].reachability > One
                /\ dreams[i].path \in { "caught", "rejected" } => ~report.dreams[k].success

\* The report holds a successful result, a result scoring above 0.5 on a page
\* whose reachability was exactly 0.5 (success=false), and a thrown dream.
C7_Witness ==
    /\ Ranked
    /\ \E i, j, m \in 1..Len(strategies) :
          /\ dreams[i].path = "scored" /\ dreams[i].result.success
          /\ dreams[j].path = "scored" /\ ~dreams[j].result.success
                /\ 2 * dreams[j].result.score > AggOne
                /\ 2 * dreams[j].reachability = One
          /\ dreams[m].path = "caught"

(***************************************************************************)
(* Properties of the incident builder (checked under SpecIncident)         *)
(***************************************************************************)

NumFailed == Len(FailedFlows(perception))

FailedWithOcclusion ==
    \E i \in 1..Len(perception.flowResults) :
        ~perception.flowResults[i].passed /\ perception.flowResults[i].occlusionDetected

\* C13: buildIncidentFromPerception returns null when all flows passed; one
\* visual_occlusion incident of severity critical when any failed flow has
\* occlusionDetected; otherwise, when some flow failed, one element_unclickable
\* incident whose severity is critical when the number of failed flows is at
\* least half the number of the profile's critical flows, and high otherwise.
C13_IncidentFromPerception ==
    pc = "built" =>
        /\ AllFlowsPassed(perception.flowResults) => incident = NoIncident
        /\ FailedWithOcclusion =>
              incident = [type |-> "visual_occlusion", severity |-> "critical"]
        /\ (NumFailed > 0 /\ ~FailedWithOcclusion) =>
              incident = [type |-> "element_unclickable",
                          severity |-> IF 2 * NumFailed >= profile.criticalFlows
                                       THEN "critical" ELSE "high"]

\* Two of four critical flows failed, none with occlusion: exactly half, so
\* the incident is element_unclickable with severity critical.
C13_Witness ==
    /\ pc = "built"
    /\ profile.criticalFlows = 4
    /\ NumFailed = 2
    /\ ~FailedWithOcclusion
    /\ incident = [type |-> "element_unclickable", severity |-> "critical"]

(***************************************************************************)
(* Properties of the memory store (checked under SpecStore)                *)
(***************************************************************************)

\* Exactly two storeMemory calls were made, for different incident ids, and
\* both completed
TwoStoresDone ==
    /\ Len(calls) = 2
    /\ calls[1].pc = "done" /\ calls[2].pc = "done"
    /\ calls[1].memory.incidentId # calls[2].memory.incidentId

StoredAt(i) == DateParse(calls[i].memory.timestamp)

\* C14: after two storeMemory calls for different incident ids, run one after
\* the other or with their store steps interleaved, getRecentMemories with a
\* limit of at least 2 returns both records, the one with the later timestamp
\* first.
C14_BothStoredNewestFirst ==
    (pc = "retrieved" /\ TwoStoresDone) =>
        /\ Len(found) = 2
        /\ { found[1], found[2] } = { calls[1].memory, calls[2].memory }
        /\ StoredAt(1) > StoredAt(2) => found = << calls[1].memory, calls[2].memory >>
        /\ StoredAt(2) > StoredAt(1) => found = << calls[2].memory, calls[1].memory >>

\* The call made first stored the newer incident, the other one came with an
\* embedding; retrieval with limit 2 lists the newer record first.
C14_Witness ==
    /\ pc = "retrieved"
    /\ TwoStoresDone
    /\ query.limit = 2
    /\ StoredAt(1) > StoredAt(2)
    /\ Len(calls[2].embedding) > 0
    /\ found = << calls[1].memory, calls[2].memory >>

\* C15 as stated: for any sequence of storeMemory calls, the record and the
\* embedding stored by a completed call remain in the store unchanged.
C15_StoredRecordsUnchanged ==
    \A i \in 1..Len(calls) :
        calls[i].pc = "done" =>
            /\ HExists(redis.hash, calls[i].memory.incidentId)
            /\ JSONparse(HGetAll(redis.hash, calls[i].memory.incidentId).data) = calls[i].memory
            /\ Len(calls[i].embedding) > 0 =>
                  /\ KeyExists(redis.embedding, calls[i].memory.incidentId)
                  /\ JSONparse(GetKey(redis.embedding, calls[i].memory.incidentId))
                        = calls[i].embedding

(***************************************************************************)
(* Properties of cosineSimilarity (checked under SpecCosine)               *)
(***************************************************************************)

ZeroNorm(v) == \A i \in 1..Len(v) : v[i] = 0

\* The parts of C19 that do not depend on rounding: 0 for different lengths
\* and for a zero norm, the same value in both argument orders, and 0 for
\* [1,0] against [0,1].
CosineGuardsAndSymmetry ==
    /\ pc \in { "cosine_done", "cosine_both" } =>
          /\ Len(cosine.a) # Len(cosine.b) => cosine.similarity = 0
          /\ (ZeroNorm(cosine.a) \/ ZeroNorm(cosine.b)) => cosine.similarity = 0
          /\ (cosine.a = << 1, 0 >> /\ cosine.b = << 0, 1 >>) => cosine.similarity = 0
    /\ pc = "cosine_both" => cosine.reversed = cosine.similarity

WindowMemories ==
    ReadMemories(redis.hash, ZRevRange(redis.index, 0, RecencyStop))

\* C16 as stated: without a query embedding findSimilarIncidents returns
\* exactly the records of the recency window whose type equals the requested
\* type, newest first, truncated to limit; the result never has more than
\* limit entries, for every limit >= 0.
C16_TypeMatchTruncated ==
    (pc = "found" /\ Len(query.embedding) = 0) =>
        LET matching == SelectSeq(WindowMemories, LAMBDA m : m.type = query.type)
        IN  /\ Len(found) <= query.limit
            /\ found = SubSeq(matching, 1,
                              IF query.limit < Len(matching) THEN query.limit
                              ELSE Len(matching))

\* The similarity C17 gives a record of the store
ClaimedSimilarity(m) ==
    IF \E e \in redis.embedding : e.id = m.incidentId
    THEN cosineSimilarity(query.embedding,
                          JSONparse((CHOOSE e \in redis.embedding : e.id = m.incidentId).value))
    ELSE IF m.type = query.type THEN SimOne \div 2 ELSE SimOne \div 10

WindowMemorySet == { WindowMemories[i] : i \in 1..Len(WindowMemories) }

\* C17: with a non-empty query embedding findSimilarIncidents scores each
\* candidate of the recency window by the cosine similarity to its stored
\* embedding, or by 0.5 / 0.1 (type equal / not) when it has none, and returns
\* the candidates in descending order of that score, truncated to limit.
C17_VectorRanked ==
    (pc = "found" /\ Len(query.embedding) > 0) =>
        /\ Len(found) = IF query.limit < Len(WindowMemories) THEN query.limit
                        ELSE Len(WindowMemories)
        /\ \A i \in 1..Len(found) : found[i] \in WindowMemorySet
        /\ \A i, j \in 1..Len(found) :
              i < j => /\ found[i] # found[j]
                       /\ ClaimedSimilarity(found[i]) >= ClaimedSimilarity(found[j])
        /\ \A m \in WindowMemorySet :
              (\A i \in 1..Len(found) : found[i] # m) =>
                  \A i \in 1..Len(found) :
                      ClaimedSimilarity(found[i]) >= ClaimedSimilarity(m)

\* Three records: the oldest has the query's embedding, the middle one has no
\* embedding and another type, the newest has no embedding and the requested
\* type; with limit 2 the oldest comes first, the newest second.
C17_Witness ==
    /\ pc = "found"
    /\ query = [type |-> "visual_occlusion", embedding |-> << 1, 0 >>, limit |-> 2]
    /\ Cardinality(redis.index) = 3
    /\ redis.embedding = { [id |-> 1, value |-> JSONstringify(<< 1, 0 >>)] }
    /\ found = << RecordOf(1, "element_unclickable"), RecordOf(3, "visual_occlusion") >>
    /\ RecordOf(2, "element_unclickable") \in WindowMemorySet

\* C18 as stated: on both paths findSimilarIncidents considers at most the 50
\* most recent records of the index, so every record it returns has fewer
\* than 50 records more recent than itself.
C18_AtMostFiftyCandidates ==
    pc = "found" =>
        \A i \in 1..Len(found) :
            Cardinality({ e \in redis.index : e.score > DateParse(found[i].timestamp) }) < 50

(***************************************************************************)
(* Properties of resolveActionForStrategy (checked under SpecResolve)      *)
(***************************************************************************)

RollbackCredentials == config.vercelToken /\ config.vercelProjectId

RequestFailed == service.state \in { "non_ok", "rejected", "timeout", "bad_body" }

\* C21: executeRemediationAction never throws; whenever the request of a
\* handler is rejected, answered non-OK, times out or the script fails, and
\* when GITHUB_TOKEN is missing, it returns an ActionResult with
\* success = false and a message, of the resolved action's type.
C21_FailuresReturnedNotThrown ==
    /\ pc # "thrown"
    /\ (pc = "returned" /\ RequestFailed) =>
          /\ ~actionResult.success
          /\ actionResult.message # Null
          /\ actionResult.actionType = resolvedAction.type
    /\ (pc = "returned" /\ resolvedAction.type = "github_issue" /\ ~env.GITHUB_TOKEN) =>
          /\ ~actionResult.success
          /\ actionResult.message = "GITHUB_TOKEN not set"
          /\ service = NoService
    /\ (pc = "returned" /\ actionResult.success) =>
          \/ resolvedAction.type = "none"
          \/ service.state = "ok"

\* a webhook request was rejected, and the catch of executeRemediationAction
\* turned the exception into a failed result
C21_Witness ==
    /\ pc = "returned"
    /\ resolvedAction.type = "webhook"
    /\ service.state = "rejected"
    /\ actionResult = [success |-> FALSE, actionType |-> "webhook", message |-> "Action failed"]

\* C22: every call of executeRemediationAction eventually returns an
\* ActionResult, for every action type, even when the external service
\* never answers.
C22_EveryActionReturns == <>(pc = "returned")

(***************************************************************************)
(* The run and its memory (SpecRun)                                        *)
(***************************************************************************)

\* The dream cycle has run and no result has success = true and score > 0.5
NoDreamQualifies ==
    /\ Len(report.dreams) > 0
    /\ \A i \in 1..Len(report.dreams) : ~Qualifies(report.dreams[i])

\* C23: a run in which no dream outcome has success = true and score > 0.5
\* does not throw; it returns a terminal phase that no other outcome of a
\* run has (healthy, resolved, verified, a failed remediation action), with
\* the dream report attached and memoryUpdated = false.
C23_NoViableDistinctPhase ==
    (pc = "done" /\ NoDreamQualifies) =>
        /\ runResult.phase # "thrown"
        /\ runResult.phase \notin { "healthy", FinalPhase(TRUE, TRUE), FinalPhase(FALSE, TRUE),
                                    FinalPhase(FALSE, FALSE) }
        /\ runResult.dreamReport
        /\ ~runResult.memoryUpdated

\* The store operations of a kind, in the order they were issued
OpsNamed(name) == SelectSeq(memoryOps, LAMBDA o : o.op = name)

\* memory.connect() failed at the start of the run
ConnectRefused == pc # "connect" /\ ~memoryOps[1].ok

\* C24: when the memory store cannot be connected, the run issues no store
\* operation after the failed connect (no thread start, step log, lookup,
\* storeMemory, disconnect), hands an empty pastIncidents list to the dream
\* cycle, returns memoryUpdated = false, and still goes through perception,
\* the dream cycle, the action and verification.
C24_NoStoreWithoutConnection ==
    ConnectRefused =>
        /\ ~memoryConnected
        /\ memoryOps = << StoreOp("connect", FALSE, FALSE) >>
        /\ pastIncidents = << >>
        /\ ~memoryUpdated
        /\ \A k \in 1..Len(phaseLog) : phaseLog[k] # "memory_write"
        /\ (pc = "done") =>
              /\ runResult.phase # "thrown" => ~runResult.memoryUpdated
              /\ runResult.phase = "verified" =>
                    phaseLog = << "perception", "incident", "diagnosis", "selection", "dreams",
                                  "action", "verification", "perception" >>

\* a run without memory that detected, dreamed, acted and verified
C24_Witness ==
    /\ pc = "done"
    /\ ConnectRefused
    /\ runResult.phase = "verified"
    /\ actionResult.success
    /\ report.bestStrategy # NoStrategy
    /\ Len(memoryOps) = 1

\* generateEmbedding failed at a stage of the run
EmbeddingFailedAt(stage) ==
    \E k \in 1..Len(llmCalls) : llmCalls[k] = LlmCall("generateEmbedding", stage, FALSE)

\* The records of a store of the given type, newest first
StoredOfType(r, type) ==
    SelectSeq(ReadMemories(r.hash, ZRevAll(r.index)), LAMBDA m : m.type = type)

\* C25: when generateEmbedding fails before the dream cycle, the lookup is
\* still made, without a query embedding, and (unless the lookup itself
\* fails) pastIncidents are the stored records of the incident's type; when
\* it fails in learning, storeMemory is still called, without an embedding,
\* and (unless the store call itself fails) the record is stored, has no
\* embedding, and memoryUpdated is true.
C25_EmbeddingFailureDegrades ==
    /\ (pc = "diagnose" /\ EmbeddingFailedAt("recall")) =>
          /\ Len(OpsNamed("findSimilarIncidents")) = 1
          /\ ~OpsNamed("findSimilarIncidents")[1].embedded
          /\ OpsNamed("findSimilarIncidents")[1].ok =>
                pastIncidents = StoredOfType(redis, incident.type)
    /\ (pc = "done" /\ EmbeddingFailedAt("learn")) =>
          /\ Len(OpsNamed("storeMemory")) = 1
          /\ ~OpsNamed("storeMemory")[1].embedded
          /\ OpsNamed("storeMemory")[1].ok =>
                /\ runResult.memoryUpdated
                /\ HExists(redis.hash, incident.id)
                /\ JSONparse(HGetAll(redis.hash, incident.id).data)
                       = RunIncidentMemory(incident, report.bestStrategy)
                /\ ~KeyExists(redis.embedding, incident.id)

\* both embeddings failed: the lookup returned the one record of the
\* incident's type out of two, and the new record was stored
C25_Witness ==
    /\ pc = "done"
    /\ EmbeddingFailedAt("recall")
    /\ EmbeddingFailedAt("learn")
    /\ Len(pastIncidents) = 1
    /\ Cardinality(redis.hash) = 3
    /\ runResult.memoryUpdated
    /\ ~KeyExists(redis.embedding, incident.id)

\* The order of the phases of a run
PhaseOrder ==
    << "perception", "incident", "diagnosis", "selection", "dreams", "action",
       "verification", "memory_write" >>

PhaseIndex(p) == CHOOSE k \in 1..Len(PhaseOrder) : PhaseOrder[k] = p

\* The k-th entry of the log is the perception that verification re-runs
IsVerificationRerun(k) ==
    k > 1 /\ phaseLog[k] = "perception" /\ phaseLog[k - 1] = "verification"

\* C26: the phases of a run take place in the order perception, incident
\* building, diagnosis, strategy selection, dream execution, action
\* dispatch, verification, memory write; each at most once, apart from the
\* perception verification re-runs; the memory write is the last of them.
C26_PhasesInOrder ==
    /\ \A j, k \in 1..Len(phaseLog) :
          (j < k /\ ~IsVerificationRerun(j) /\ ~IsVerificationRerun(k)) =>
              PhaseIndex(phaseLog[j]) < PhaseIndex(phaseLog[k])
    /\ \A k \in 1..Len(phaseLog) : phaseLog[k] = "memory_write" => k = Len(phaseLog)
    /\ \A k \in 1..Len(phaseLog) : IsVerificationRerun(k) => k = PhaseIndex("verification") + 1
    /\ phaseLog # << >> => phaseLog[1] = "perception"

\* a run that went through every phase, the verification and the memory
\* write included
C26_Witness ==
    /\ pc = "done"
    /\ phaseLog = << "perception", "incident", "diagnosis", "selection", "dreams", "action",
                     "verification", "perception", "memory_write" >>

\* C27: a long-term memory record is written at most once per run, and only
\* in a run that ends resolved or verified: a run that is healthy, finds no
\* viable strategy, or whose action fails without verification stores none.
C27_RecordOnlyForResolved ==
    pc = "done" =>
        /\ Len(OpsNamed("storeMemory")) <= 1
        /\ (\E k \in 1..Len(memoryOps) : memoryOps[k].op = "storeMemory" /\ memoryOps[k].ok) =>
              runResult.phase \in { "resolved", "verified" }
        /\ (runResult.phase \in { "resolved", "verified" } /\ runResult.memoryUpdated) =>
              /\ Len(OpsNamed("storeMemory")) = 1
              /\ OpsNamed("storeMemory")[1].ok

(***************************************************************************)
(* The target app's API (SpecTarget)                                       *)
(***************************************************************************)

\* C28: every GET /api/health is answered with HTTP 200 and a body whose
\* status is "ok", in every state of the bug toggle and after every
\* sequence of POST /api/bug calls.
C28_HealthAlwaysOk ==
    \A k \in 1..Len(responses) :
        responses[k].path = "/api/health" =>
            /\ responses[k].status = 200
            /\ responses[k].body.status = "ok"

\* The b of the most recent successful POST /api/bug before the k-th
\* exchange, as a set: empty when there was none
LastPosted(k) ==
    LET posts == { j \in 1..(k - 1) :
                      responses[j].method = "POST" /\ responses[j].status = 200 }
    IN  IF posts = { } THEN { }
        ELSE { responses[CHOOSE j \in posts : \A i \in posts : i <= j].request.enabled }

\* C29: POST /api/bug with { enabled: b } for a boolean b answers 200 with a
\* body whose boolean field `enabled` equals b, and every later GET /api/bug
\* answers 200 with a boolean field `enabled` equal to the b of the most
\* recent successful POST.
C29_ToggleRoundTrips ==
    \A k \in 1..Len(responses) :
        /\ (responses[k].method = "POST" /\ responses[k].request.json
              /\ responses[k].request.enabledType = "boolean") =>
              /\ responses[k].status = 200
              /\ "enabled" \in DOMAIN responses[k].body
              /\ responses[k].body.enabled = responses[k].request.enabled
        /\ (responses[k].method = "GET" /\ responses[k].path = "/api/bug") =>
              /\ responses[k].status = 200
              /\ "enabled" \in DOMAIN responses[k].body
              /\ \A b \in LastPosted(k) : responses[k].body.enabled = b

(***************************************************************************)
(* Safety sub-score (SpecSafety)                                           *)
(***************************************************************************)

\* The danger signals present in the document under examination
DangerSignals ==
    { s \in { "runtime_error", "application_error", "page_destroyed", "error_alerts",
              "hydration_error" } :
        \/ s = "runtime_error" /\ dom.runtimeError
        \/ s = "application_error" /\ dom.applicationError
        \/ s = "page_destroyed" /\ dom.bodyChildren < 2
        \/ s = "error_alerts" /\ dom.alerts > 0
        \/ s = "hydration_error" /\ dom.hydrationError }

\* C30: when the examination of the document succeeds, the safety sub-score
\* is 1.0 without any danger signal, 0.0 whenever page_destroyed (fewer than
\* 2 body children) is among the signals, and otherwise
\* max(0, 1.0 - 0.3 * number of signals): 0.7, 0.4, 0.1 for one, two and
\* three signals, 0 for four, never negative.
C30_SafetyScore ==
    (pc = "checked" /\ ~safety.thrown) =>
        LET n == Cardinality(DangerSignals)
        IN  /\ Len(safety.issues) = n
            /\ n = 0 => safety.score = One
            /\ "page_destroyed" \in DangerSignals => safety.score = 0
            /\ (n > 0 /\ "page_destroyed" \notin DangerSignals) =>
                  /\ 10 * safety.score = (IF n < 4 THEN 10 - 3 * n ELSE 0) * One
                  /\ (n = 4 => safety.score = 0)
            /\ safety.score >= 0
            /\ safety.score <= One

\* four signals on a document that is not destroyed: the floor applies
C30_Witness ==
    /\ pc = "checked"
    /\ ~safety.thrown
    /\ dom.bodyChildren >= 2
    /\ Len(safety.issues) = 4
    /\ safety.score = 0

(***************************************************************************)
(* Properties of evaluatePageHealth (checked under SpecHealth)             *)
(***************************************************************************)

\* The flows that passed alone decide the reachability: a flow that throws
\* counts like one that fails.
ThrowAsFail(outcomes) ==
    [k \in 1..Len(outcomes) |-> IF outcomes[k] = "throws" THEN "fail" ELSE outcomes[k]]

\* The visual assessment of the language model failed: the request threw, or
\* its answer could not be parsed.
AssessmentFailed ==
    checks.assessment.outcome \in { "throws", "unparseable" }

\* C31: evaluatePageHealth never throws: a throwing reachability or visual
\* check contributes 0.0 for that check, a throwing safety evaluation gives
\* the safety sub-score 0.5, and a failed visual assessment of the language
\* model leaves the visual-integrity score equal to the ratio of the DOM
\* checks alone.
C31_ChecksAbsorbExceptions ==
    pc = "evaluated" =>
        /\ breakdown.reachability =
              (IF checks.profiled THEN checkFlowReachability(ThrowAsFail(checks.flows))
               ELSE checkBasicReachability(ThrowAsFail(checks.flows)[1]))
        /\ (checks.safety = "throws" => breakdown.safety = One \div 2)
        /\ (~checks.profiled /\ checks.basic < 0 => breakdown.visualIntegrity = 0)
        /\ (checks.profiled /\ Len(checks.elements) > 0 /\ AssessmentFailed =>
               breakdown.visualIntegrity =
                   DomScore([k \in 1..Len(checks.elements) |->
                                IF checks.elements[k] = "throws" THEN "missing"
                                ELSE checks.elements[k]]))

(***************************************************************************)
(* Properties of diagnoseRootCause (checked under SpecDiagnose)            *)
(***************************************************************************)

\* C32: diagnoseRootCause always returns a confidence in [0,1]; on an answer
\* that is not parseable JSON it returns confidence 0.3 and the suggestions
\* rollback_simulation, css_patch_targeted instead of throwing, and the dream
\* cycle goes on with those strategies.
C32_DiagnosisDefaults ==
    /\ pc \in { "diagnosed", "selected" } =>
          /\ ~diagnosis.confidence.nan
          /\ diagnosis.confidence.value >= 0
          /\ diagnosis.confidence.value <= ConfidenceOne
    /\ llm.outcome = "resolves" /\ llm.content.kind = "not_json" =>
          /\ pc # "thrown"
          /\ pc # "diagnose" =>
                /\ diagnosis.confidence = Num(30)
                /\ diagnosis.suggestedStrategies =
                      << "rollback_simulation", "css_patch_targeted" >>
          /\ pc = "selected" =>
                /\ HasStrategy(strategies, "rollback_simulation")
                /\ HasStrategy(strategies, "css_patch_targeted")

(***************************************************************************)
(* Properties of the reachability sub-score (checked under SpecReach)      *)
(***************************************************************************)

\* C33: the reachability of a profile is the sum of the priorities of the
\* passing flows over the sum of all priorities (0 when that sum is not
\* positive), and it lies in [0,1] for every profile createGenericProfile
\* builds, whatever the number of flows.
C33_ReachabilityIsPriorityRatio ==
    pc = "checked" =>
        /\ breakdown.reachability =
              (IF breakdown.totalWeight > 0
               THEN (breakdown.passedWeight * One) \div breakdown.totalWeight ELSE 0)
        /\ breakdown.reachability >= 0
        /\ breakdown.reachability <= One

\* A step taken after evaluatePageHealth returned leaves the three measured
\* sub-scores as they are.
SubScoresKept ==
    pc \in { "evaluated", "backfilled", "scored" } =>
        /\ breakdown'.reachability = breakdown.reachability
        /\ breakdown'.visualIntegrity = breakdown.visualIntegrity
        /\ breakdown'.safety = breakdown.safety

\* C34: the score of the DreamResult of a dream that did not throw is
\* 0.4*reachability + 0.25*visualIntegrity + 0.2*safety + 0.15*latency with
\* the latency back-filled from the elapsed time: the aggregate is recomputed
\* after the back-fill, and the back-fill leaves the other three sub-scores
\* as evaluatePageHealth measured them.
C34_ScoreUsesBackfilledLatency ==
    /\ [](pc = "returned" =>
            /\ breakdown.latency = scoreLatency(durationMs)
            /\ dreams[1].score = 40 * breakdown.reachability
                                  + 25 * breakdown.visualIntegrity
                                  + 20 * breakdown.safety
                                  + 15 * scoreLatency(durationMs))
    /\ [][SubScoresKept]_vars

\* A returned result whose back-filled latency is below the placeholder, so
\* that the recomputed score differs from the one computed with latency 1.0.
C34_Witness ==
    /\ pc = "returned"
    /\ breakdown.latency < One
    /\ breakdown.reachability > 0
    /\ dreams[1].score < evaluatePageHealth(breakdown.reachability,
                                            breakdown.visualIntegrity,
                                            breakdown.safety).aggregate

(***************************************************************************)
(* Properties of verification and the final phase (checked under SpecRun)  *)
(***************************************************************************)

\* The verification run of perception took place.
VerificationRan == \E k \in 1..Len(phaseLog) : phaseLog[k] = "verification"

\* C35: verification re-runs perception exactly when the remediation action
\* that was executed succeeded and was not the report-only action "none"; in
\* particular it runs after every successful real rollback.
C35_VerifyIffRealActionSucceeded ==
    pc \in { "learn", "finish", "done" } /\ actionResult.actionType # Null =>
        (VerificationRan <=> (actionResult.success /\ resolvedAction.type # "none"))

(***************************************************************************)
(* Properties of the strategy list (checked under SpecSelect)              *)
(***************************************************************************)

\* C36: the list selectStrategies returns never holds two entries with the
\* same strategy name, whatever the diagnosis suggests (a repeated name, the
\* baseline or a fallback name included) and whatever the incident type, so
\* the dream cycle opens at most one session per strategy name.
C36_StrategyNamesDistinct ==
    pc = "selected" =>
        \A i \in 1..Len(strategies), j \in 1..Len(strategies) :
            strategies[i].name = strategies[j].name => i = j

\* A diagnosis that names the same strategy twice, for an incident type whose
\* fallbacks are added as well.
C36_Witness ==
    /\ pc = "selected"
    /\ incident.type = "visual_occlusion"
    /\ Len(diagnosis.suggestedStrategies) = 2
    /\ diagnosis.suggestedStrategies[1] = diagnosis.suggestedStrategies[2]
    /\ diagnosis.suggestedStrategies[1] \in { "css_patch_targeted", "cache_clear" }
    /\ Len(strategies) >= 3

(***************************************************************************)
(* Properties of strategies without implementation (checked under          *)
(* SpecNovel)                                                              *)
(***************************************************************************)

\* The strategy names the switch of executeDream has a case for
ImplementedStrategies ==
    { "rollback_simulation", "css_patch_targeted", "dom_removal", "style_override",
      "js_injection", "cache_clear" }

\* C37: a strategy whose name executeDream has no implementation for applies
\* no mutation to its session, but it is navigated, scored and ranked like
\* any other, and it is the best strategy when its unmodified page yields
\* reachability > 0.5 and score > 0.5 and no other dream scores as high.
C37_UnknownStrategyStillRanked ==
    \A i \in 1..Len(dreams) :
        strategies[i].name \notin ImplementedStrategies =>
            /\ dreams[i].pc = "evaluate" => dreams[i].ops = << "goto" >>
            /\ dreams[i].pc = "settled" =>
                  \/ dreams[i].ops = << "goto", "evaluatePageHealth" >>
                  \/ dreams[i].ops = << >> /\ dreams[i].result = DreamErrorResult(strategies[i].name)
            /\ pc = "ranked" =>
                  /\ \E k \in 1..Len(report.dreams) : report.dreams[k] = dreams[i].result
                  /\ (/\ Qualifies(dreams[i].result)
                      /\ \A j \in 1..Len(dreams) :
                            j # i => dreams[j].result.score < dreams[i].result.score)
                        => report.bestStrategy = dreams[i].result

\* The dream of the unknown name was evaluated on its unmodified page and won.
C37_Witness ==
    /\ pc = "ranked"
    /\ report.bestStrategy.strategy = NovelName
    /\ \E i \in 1..Len(dreams) :
          /\ strategies[i].name = NovelName
          /\ dreams[i].ops = << "goto", "evaluatePageHealth" >>
          /\ 2 * report.bestStrategy.score > AggOne

(***************************************************************************)
(* Properties of storeMemory against a concurrent reader (checked under    *)
(* SpecStore)                                                              *)
(***************************************************************************)

\* The ids in the recency index
IndexedIds == { e.member : e \in redis.index }

\* A storeMemory call is between two of its commands.
StoreUnderWay == \E i \in 1..Len(calls) : calls[i].pc \in { "set", "zadd" }

\* C38: in every reachable state of the store, the states between the steps
\* of a storeMemory call included, every incident id in the recency index has
\* its record written, and the call that inserted it has written its
\* embedding if it supplied one; a reader that took its ids from the index
\* finds a record for each of them.
C38_IndexedOnlyAfterWritten ==
    /\ \A id \in IndexedIds : HExists(redis.hash, id)
    /\ \A i \in 1..Len(calls) :
          calls[i].pc = "done" =>
              /\ calls[i].memory.incidentId \in IndexedIds
              /\ Len(calls[i].embedding) > 0 =>
                    KeyExists(redis.embedding, calls[i].memory.incidentId)
    /\ \A i \in 1..Len(calls) :
          (calls[i].pc \in { "hset", "set" }
           /\ \A j \in 1..Len(calls) :
                 j # i /\ calls[j].memory.incidentId = calls[i].memory.incidentId
                     => calls[j].pc # "done")
              => calls[i].memory.incidentId \notin IndexedIds
    /\ (pc = "storing" /\ query.type = "read") => Len(found) = Len(query.ids)

\* One call has finished and is indexed while a second call, with an
\* embedding, has written its record but not yet its index entry, and the
\* reader has read the index in between.
C38_Witness ==
    /\ pc = "storing"
    /\ Len(calls) = 2
    /\ calls[1].pc = "done"
    /\ calls[2].pc = "zadd"
    /\ Len(calls[2].embedding) > 0
    /\ calls[1].memory.incidentId # calls[2].memory.incidentId
    /\ query.type = "read"
    /\ Len(found) = 1
    /\ HExists(redis.hash, calls[2].memory.incidentId)
    /\ calls[2].memory.incidentId \notin IndexedIds


\* C39: every run that connected to the memory store disconnects from it
\* before the run ends, on every way the run can end: healthy, no viable
\* strategy, action completed, or an exception thrown on the way.
C39_ConnectedRunsDisconnect ==
    (pc = "done" /\ memoryConnected) => Len(OpsNamed("disconnect")) >= 1

\* C40: for a run in which a winning strategy was chosen, the final phase is
\* "verified" exactly when verification ran and perception was healthy,
\* "resolved" exactly when the action succeeded but the run was not verified,
\* and "failed" exactly when the action did not succeed, whether or not the
\* memory write succeeded.
C40_FinalPhase ==
    (pc = "done" /\ runResult.dreamReport) =>
        /\ runResult.phase = "verified" <=> (VerificationRan /\ runResult.verified)
        /\ runResult.phase = "resolved" <=> (actionResult.success /\ ~runResult.verified)
        /\ runResult.phase = "failed" <=> ~actionResult.success
        /\ runResult.phase \in { "verified", "resolved", "failed" }

\* A verified run whose memory write failed on a connected store.
C40_Witness ==
    /\ pc = "done"
    /\ runResult.dreamReport
    /\ runResult.phase = "verified"
    /\ memoryConnected
    /\ ~memoryUpdated
    /\ \E k \in 1..Len(memoryOps) : memoryOps[k].op = "storeMemory" /\ ~memoryOps[k].ok

====
